---- MODULE Spec2Model ----
(***************************************************************************)
(* The pyheart game kernel (pyheart/game.py, pyheart/cards.py) as a state  *)
(* machine.  A Game object is a record; every engine method is an operator *)
(* from a game record to an outcome [g, err, who]: the game as the method  *)
(* leaves it, the exception it raised ("ok" when it returned) and, for     *)
(* DeadPlayerError, the player the exception carries.  The action          *)
(* generator of pyheart/tree.py is modelled on top of the kernel.          *)
(***************************************************************************)
EXTENDS Integers, Sequences, FiniteSets, TLC

\* ------------------------------------------------------------------------
\* Bounds of the model
\* ------------------------------------------------------------------------

\* The turn at which successful end-turns stop, for each setup below.
MaxTurn == 5
MaxCapTurn == 8
MaxManaTurn == 21
MaxCryTurn == 2
MaxSkirmishTurn == 4
MaxGeneratorTurn == 4
MaxWipeTurn == 2

\* The largest number of cards asked of Deck.deal in the properties.
MaxDeal == 2

\* The largest number of nodes of a tree and the largest number of visits of
\* a root.
MaxNodes == 3
MaxIterations == 2

\* ------------------------------------------------------------------------
\* Program constants
\* ------------------------------------------------------------------------

HEALTH_LEVEL == 20
MAX_MANA_LEVEL == 10
MAX_CARDS_PER_PLAYER == 7
NUMBERS_OF_START_CARDS == <<3, 4>>

\* Python's None, where an identifier is expected (target_id: Optional[str]).
None == 0

\* Positions in Game.players; the player at position i has identifier i + 1.
Players == {0, 1}
PlayerId(i) == i + 1
PlayerIds == {PlayerId(i) : i \in Players}
PlayerOf(pid) == pid - 1
Other(p) == 1 - p

Min(a, b) == IF a <= b THEN a ELSE b
Max(a, b) == IF a >= b THEN a ELSE b
Range(s) == {s[i] : i \in 1..Len(s)}

\* ------------------------------------------------------------------------
\* Cards: the decks handed to Game(player_decks=...)
\* ------------------------------------------------------------------------

\* MinionCard(name, cost, attack, health, ability)
Minion(cost, attack, health, ability, val, tgt) ==
    [kind |-> "minion", cost |-> cost, attack |-> attack, health |-> health,
     ability |-> ability, val |-> val, can_target |-> tgt]

\* AbilityCard(name, cost, ability)
Spell(cost, ability, val, tgt) ==
    [kind |-> "spell", cost |-> cost, attack |-> 0, health |-> 0,
     ability |-> ability, val |-> val, can_target |-> tgt]

\* Cards 60..99 are minions no player can ever pay for.
Fillers == 60..99

\* The cards of the decks below, by card identifier.
Catalog ==
       \* a duel of two strong minions, the second with Charge
       (11 :> Minion(1, 10, 2, "none", 0, FALSE))
    @@ (21 :> Minion(1, 10, 2, "charge", 0, FALSE))
       \* eight minions that fill the second player's side of the board
    @@ (31 :> Minion(0, 0, 1, "none", 0, FALSE))
    @@ (32 :> Minion(0, 0, 1, "none", 0, FALSE))
    @@ (33 :> Minion(0, 0, 1, "none", 0, FALSE))
    @@ (34 :> Minion(0, 0, 1, "none", 0, FALSE))
    @@ (35 :> Minion(0, 0, 1, "none", 0, FALSE))
    @@ (36 :> Minion(0, 0, 1, "none", 0, FALSE))
    @@ (37 :> Minion(0, 0, 1, "none", 0, FALSE))
    @@ (38 :> Minion(0, 0, 1, "none", 0, FALSE))
       \* a spell that costs all the mana a player can have
    @@ (41 :> Spell(10, "none", 0, FALSE))
       \* a minion and a minion that deals damage to a target when played
    @@ (51 :> Minion(1, 5, 3, "none", 0, FALSE))
    @@ (52 :> Minion(1, 4, 2, "deal_damage", 10, TRUE))
       \* two minions that survive a combat with each other, the second with
       \* Charge, and a spell that deals damage to every enemy minion
    @@ (12 :> Minion(1, 2, 5, "none", 0, FALSE))
    @@ (22 :> Minion(1, 1, 4, "charge", 0, FALSE))
    @@ (42 :> Spell(1, "deal_damage", 2, FALSE))
       \* the cards of the game the action generators are built on
    @@ (13 :> Minion(1, 10, 2, "none", 0, FALSE))
    @@ (23 :> Minion(1, 10, 2, "charge", 0, FALSE))
    @@ (43 :> Spell(1, "none", 0, FALSE))
       \* a minion, a minion that deals damage to every enemy minion when
       \* played, and a spell that deals damage to a target (with the spell
       \* without ability of the generators' game)
    @@ (16 :> Minion(1, 1, 3, "none", 0, FALSE))
    @@ (26 :> Minion(1, 0, 2, "deal_damage", 2, FALSE))
    @@ (46 :> Spell(1, "deal_damage", 2, TRUE))
       \* the cards of the game the trees are built on: a minion with Charge
       \* and two spells without ability for the first player, ten such
       \* spells for the second
    @@ (14 :> Minion(1, 20, 2, "charge", 0, FALSE))
    @@ (44 :> Spell(1, "none", 0, FALSE))
    @@ (45 :> Spell(1, "none", 0, FALSE))
    @@ [c \in 101..110 |-> Spell(1, "none", 0, FALSE)]
       \* the cards of RejectedSetup: three spells without ability for the
       \* first player; a minion that deals damage to a target when played,
       \* a minion of cost 5 without ability and two spells of cost 1 for
       \* the second
    @@ [c \in 111..113 |-> Spell(1, "none", 0, FALSE)]
    @@ (121 :> Minion(1, 5, 1, "deal_damage", 5, TRUE))
    @@ (122 :> Minion(5, 1, 1, "none", 0, FALSE))
    @@ [c \in 123..124 |-> Spell(1, "none", 0, FALSE)]
    @@ [c \in Fillers |-> Minion(100, 1, 1, "none", 0, FALSE)]

CardIds == DOMAIN Catalog

\* The games checked.  decks: one deck per player, the cards in dealing
\* order; turns: the turn at which successful end-turns stop; cards: the
\* card identifiers the callers pass to play; units: those they pass to attack
\* as the attacker and, with the players' identifiers or None, as the victim
\* of an attack or the target of a play; in_order: the callers play a
\* player's cards in the order of their identifiers (no card while a card
\* of cards with a lower identifier is in the hand).
DuelSetup ==
    [decks |-> << <<11, 61, 62>>, <<21, 71, 72, 73>> >>,
     turns |-> MaxTurn, cards |-> {11, 21, 61, 71}, units |-> {11, 21}, in_order |-> FALSE]

CapSetup ==
    [decks |-> << <<61, 62, 63, 64, 65, 66, 67, 68, 69, 70, 71>>,
                  <<31, 32, 33, 34, 35, 36, 37, 38>> >>,
     turns |-> MaxCapTurn, cards |-> {31, 32, 33, 34, 35, 36, 37, 38, 61},
     units |-> {31}, in_order |-> TRUE]

ManaSetup ==
    [decks |-> << <<41, 61, 62, 63, 64, 65, 66, 67, 68, 69, 70, 71, 72, 73>>,
                  <<81, 82, 83, 84>> >>,
     turns |-> MaxManaTurn, cards |-> {41, 61, 81}, units |-> {61}, in_order |-> FALSE]

CrySetup ==
    [decks |-> << <<51, 61, 62>>, <<52, 71, 72, 73>> >>,
     turns |-> MaxCryTurn, cards |-> {51, 52, 61}, units |-> {51, 52}, in_order |-> FALSE]

SkirmishSetup ==
    [decks |-> << <<12, 61, 62>>, <<22, 42, 71, 72>> >>,
     turns |-> MaxSkirmishTurn, cards |-> {12, 22, 42}, units |-> {12, 22},
     in_order |-> FALSE]

WipeSetup ==
    [decks |-> << <<16, 61, 62>>, <<26, 46, 43, 72>> >>,
     turns |-> MaxWipeTurn, cards |-> {16, 26, 46, 43}, units |-> {16, 26},
     in_order |-> FALSE]

Setups == {DuelSetup, CapSetup, ManaSetup, CrySetup, SkirmishSetup, WipeSetup}

\* The game the action generators are built on.
GeneratorSetup ==
    [decks |-> << <<13, 63, 64>>, <<23, 43, 74, 75>> >>,
     turns |-> MaxGeneratorTurn, cards |-> {13, 23, 43}, units |-> {13, 23},
     in_order |-> FALSE]

\* The game the trees are built on, a tree being made at the turn `turns`.
TreeSetup ==
    [decks |-> << <<14, 44, 45>>, <<101, 102, 103, 104, 105, 106, 107, 108, 109, 110>> >>,
     turns |-> 9, cards |-> {14, 44, 45} \cup 101..110, units |-> {14},
     in_order |-> FALSE]

\* A second game trees are built on: the second player's minion is on the
\* board and still in the hand when the tree is made, its play without a
\* target having been rejected.
RejectedSetup ==
    [decks |-> << <<111, 112, 113>>, <<121, 122, 123, 124>> >>,
     turns |-> 9, cards |-> 111..113 \cup 121..124, units |-> {121, 122},
     in_order |-> FALSE]

TreeSetups == {TreeSetup, RejectedSetup}

\* ------------------------------------------------------------------------
\* Outcomes
\* ------------------------------------------------------------------------

Out(g, err) == [g |-> g, err |-> err, who |-> None]

InvalidActionErrors ==
    {"MissingCard", "NotEnoughMana", "TooManyCards", "CardCannotAttack",
     "TargetNotDefined", "InvalidTarget", "InvalidPlayerTurn", "GameNotStarted"}

\* ------------------------------------------------------------------------
\* Game properties
\* ------------------------------------------------------------------------

Turn(g) == Max(g.turn, 1)
CalculateTurn(g, t) == t % Cardinality(Players)
CurrentPlayer(g) == CalculateTurn(g, Turn(g) - 1)
NextPlayer(g) == CalculateTurn(g, Turn(g))
Mana(g, p) == g.current_mana[p] - g.used_mana[p]

\* ------------------------------------------------------------------------
\* Player.health setter, Deck.deal, Player.take_cards
\* ------------------------------------------------------------------------

\* Faulty variant: the setter stores the new health without latching it to 0.
SetPlayerHealth_NoLatch(g, p, new_health) ==
    IF new_health <= 0
    THEN [g |-> [g EXCEPT !.health[p] = new_health], err |-> "DeadPlayer",
          who |-> PlayerId(p)]
    ELSE Out([g EXCEPT !.health[p] = new_health], "ok")

SetPlayerHealth(g, p, new_health) ==
    IF new_health <= 0
    THEN [g |-> [g EXCEPT !.health[p] = 0], err |-> "DeadPlayer", who |-> PlayerId(p)]
    ELSE Out([g EXCEPT !.health[p] = new_health], "ok")

\* Faulty variant: EmptyDeckError carries the shortfall of the call, not the
\* cumulative count.
DeckDeal_Shortfall(g, p, number) ==
    LET cards == g.deck[p]
        next_cards == SubSeq(cards, 1, Min(number, Len(cards)))
        rest == SubSeq(cards, Min(number, Len(cards)) + 1, Len(cards))
        difference == number - Len(next_cards)
        g1 == [g EXCEPT !.deck[p] = rest]
    IN  IF difference > 0
        THEN [g |-> [g1 EXCEPT !.empty_card[p] = @ + difference], err |-> "EmptyDeck",
              cards |-> <<>>, deal_attempt |-> difference]
        ELSE [g |-> g1, err |-> "ok", cards |-> next_cards, deal_attempt |-> 0]

\* The outcome also carries the cards dealt and EmptyDeckError.deal_attempt.
DeckDeal(g, p, number) ==
    LET cards == g.deck[p]
        next_cards == SubSeq(cards, 1, Min(number, Len(cards)))
        rest == SubSeq(cards, Min(number, Len(cards)) + 1, Len(cards))
        difference == number - Len(next_cards)
        g1 == [g EXCEPT !.deck[p] = rest]
    IN  IF difference > 0
        THEN LET g2 == [g1 EXCEPT !.empty_card[p] = @ + difference]
             IN  [g |-> g2, err |-> "EmptyDeck", cards |-> <<>>,
                  deal_attempt |-> g2.empty_card[p]]
        ELSE [g |-> g1, err |-> "ok", cards |-> next_cards, deal_attempt |-> 0]

TakeCards(g, p, number) ==
    LET d == DeckDeal(g, p, number)
    IN  IF d.err = "ok"
        THEN Out([d.g EXCEPT !.hand[p] = @ \cup Range(d.cards)], "ok")
        ELSE SetPlayerHealth(d.g, p, d.g.health[p] - d.deal_attempt)

\* ------------------------------------------------------------------------
\* Board
\* ------------------------------------------------------------------------

ResetCards(g, p) ==
    [g EXCEPT !.card = [c \in DOMAIN g.card |->
        IF c \in g.player_cards[p] THEN [@[c] EXCEPT !.can_attack = TRUE] ELSE @[c]]]

\* MinionCard.health setter: the health is clamped at 0 and DeadCardError is
\* raised (dead) when the value set is not positive.
SetCardHealth(g, c, value) ==
    [g |-> [g EXCEPT !.card[c].health = Max(0, value)], dead |-> (value <= 0)]

PlayedCards(g, p) == g.player_cards[p]

\* With two players the only other key of Board._player_cards is the enemy's;
\* while that key is missing the enemy has no played cards.
EnemyCards(g, p) == PlayedCards(g, Other(p))

\* Board.get_card: "ok" when card_id is a played card of player p.
BoardGetCard(g, card_id, p) ==
    IF card_id \notin g.player_cards[p] \/ card_id \notin g.board_cards
    THEN "MissingCard" ELSE "ok"

AddCard(g, p, c) ==
    [g EXCEPT !.player_cards[p] = @ \cup {c}, !.board_cards = @ \cup {c}]

\* Faulty variant: the board accepts a card while the player has 7 or fewer.
BoardPlayCard_OffByOne(g, p, c) ==
    IF Cardinality(PlayedCards(g, p)) > MAX_CARDS_PER_PLAYER
    THEN Out(g, "TooManyCards")
    ELSE Out(AddCard(g, p, c), "ok")

BoardPlayCard(g, p, c) ==
    IF Cardinality(PlayedCards(g, p)) >= MAX_CARDS_PER_PLAYER
    THEN Out(g, "TooManyCards")
    ELSE Out(AddCard(g, p, c), "ok")

\* Faulty variant: the card's id stays in the players' sets of ids.
RemoveCard_KeepsIds(g, c) ==
    IF c \notin g.board_cards THEN Out(g, "KeyError")
    ELSE Out([g EXCEPT !.board_cards = @ \ {c}], "ok")

\* Board._remove_card: del on a missing key raises KeyError.
RemoveCard(g, c) ==
    IF c \notin g.board_cards THEN Out(g, "KeyError")
    ELSE Out([g EXCEPT !.board_cards = @ \ {c},
                       !.player_cards = [p \in Players |-> @[p] \ {c}]], "ok")

RECURSIVE RemoveCards(_, _)
RemoveCards(g, dead_cards) ==
    IF dead_cards = <<>> THEN Out(g, "ok")
    ELSE LET r == RemoveCard(g, Head(dead_cards))
         IN  IF r.err # "ok" THEN r ELSE RemoveCards(r.g, Tail(dead_cards))

\* Faulty variant: the attacker takes no damage back from its victim.
MinionAttack_NoRetaliation(g, a, victim, is_player) ==
    IF ~g.card[a].can_attack
    THEN [g |-> g, err |-> "CardCannotAttack", who |-> None, dead |-> <<>>]
    ELSE
    LET g1 == [g EXCEPT !.card[a].can_attack = FALSE]
    IN  IF is_player
        THEN LET h == SetPlayerHealth(g1, PlayerOf(victim),
                                      g1.health[PlayerOf(victim)] - g1.card[a].damage)
             IN  [g |-> h.g, err |-> h.err, who |-> h.who, dead |-> <<>>]
        ELSE LET v == SetCardHealth(g1, victim, g1.card[victim].health - g1.card[a].damage)
             IN  [g |-> v.g, err |-> "ok", who |-> None,
                  dead |-> IF v.dead THEN <<victim>> ELSE <<>>]

\* MinionCard.attack; the victim is a Player object (is_player) or a card.
\* The outcome also carries the list of dead cards.
MinionAttack(g, a, victim, is_player) ==
    IF ~g.card[a].can_attack
    THEN [g |-> g, err |-> "CardCannotAttack", who |-> None, dead |-> <<>>]
    ELSE
    LET g1 == [g EXCEPT !.card[a].can_attack = FALSE]
    IN  IF is_player
        THEN LET h == SetPlayerHealth(g1, PlayerOf(victim),
                                      g1.health[PlayerOf(victim)] - g1.card[a].damage)
                 s == SetCardHealth(h.g, a, h.g.card[a].health - 0)
             IN  IF h.err # "ok"
                 THEN [g |-> h.g, err |-> h.err, who |-> h.who, dead |-> <<>>]
                 ELSE [g |-> s.g, err |-> "ok", who |-> None,
                       dead |-> IF s.dead THEN <<a>> ELSE <<>>]
        ELSE LET v == SetCardHealth(g1, victim, g1.card[victim].health - g1.card[a].damage)
                 s == SetCardHealth(v.g, a, v.g.card[a].health - v.g.card[victim].damage)
             IN  [g |-> s.g, err |-> "ok", who |-> None,
                  dead |-> (IF v.dead THEN <<victim>> ELSE <<>>)
                           \o (IF s.dead THEN <<a>> ELSE <<>>)]

\* AbilityCard.attack: no can_attack check, no retaliation.
SpellAttack(g, a, victim, is_player) ==
    IF is_player
    THEN LET h == SetPlayerHealth(g, PlayerOf(victim),
                                  g.health[PlayerOf(victim)] - g.card[a].damage)
         IN  [g |-> h.g, err |-> h.err, who |-> h.who, dead |-> <<>>]
    ELSE LET v == SetCardHealth(g, victim, g.card[victim].health - g.card[a].damage)
         IN  [g |-> v.g, err |-> "ok", who |-> None,
              dead |-> IF v.dead THEN <<victim>> ELSE <<>>]

CardAttack(g, a, victim, is_player) ==
    IF Catalog[a].kind = "minion"
    THEN MinionAttack(g, a, victim, is_player)
    ELSE SpellAttack(g, a, victim, is_player)

\* Board.attack after card.attack returned r: the dead cards are removed,
\* unless card.attack raised.
RemoveDead(r) ==
    IF r.err # "ok" THEN [g |-> r.g, err |-> r.err, who |-> r.who]
    ELSE RemoveCards(r.g, r.dead)

\* Board.attack: a victim that is no key of Board._cards and has no id
\* attribute (a string or None, not a Player) is a missing card.
BoardAttack(g, a, victim, is_player) ==
    IF ~is_player /\ victim \notin g.board_cards
    THEN Out(g, "MissingCard")
    ELSE RemoveDead(CardAttack(g, a, victim, is_player))

\* Faulty variant: the attacker is looked up among all the cards played.
PlayerAttack_AnyUnit(g, p, attacker_id, victim, is_player) ==
    IF attacker_id \notin g.board_cards THEN Out(g, "MissingCard")
    ELSE BoardAttack(g, attacker_id, victim, is_player)

\* Player.attack
PlayerAttack(g, p, attacker_id, victim, is_player) ==
    IF BoardGetCard(g, attacker_id, p) # "ok" THEN Out(g, "MissingCard")
    ELSE BoardAttack(g, attacker_id, victim, is_player)

\* ------------------------------------------------------------------------
\* Abilities and Card.play
\* ------------------------------------------------------------------------

\* Ability._discard_target
DiscardTarget(target_id) == IF target_id # None THEN "InvalidTarget" ELSE "ok"

\* for victim in ...: board.attack(card, victim.id), in the order of `victims`;
\* the first exception ends the loop.
RECURSIVE AttackEach(_, _, _)
AttackEach(g, c, victims) ==
    IF victims = <<>> THEN Out(g, "ok")
    ELSE LET r == BoardAttack(g, c, Head(victims), FALSE)
         IN  IF r.err # "ok" THEN r ELSE AttackEach(r.g, c, Tail(victims))

\* IncreaseMinonsHealthAbility's loop; the values of the catalog are positive,
\* so that no health set here raises DeadCardError.
IncreaseHealth(g, p, val) ==
    [g EXCEPT !.card = [c \in DOMAIN g.card |->
        IF c \in PlayedCards(g, p)
        THEN [@[c] EXCEPT !.health = Max(0, @ + val)] ELSE @[c]]]

\* Faulty variant: a target that is no card of the board makes the ability
\* attack every enemy card.
DealDamagePlay_FallsThrough(g, p, c, target_id, order) ==
    IF Catalog[c].can_target /\ target_id \in g.board_cards
    THEN IF BoardGetCard(g, target_id, p) = "ok"
         THEN Out(g, "InvalidTarget")
         ELSE BoardAttack([g EXCEPT !.card[c].can_attack = TRUE], c, target_id, FALSE)
    ELSE AttackEach([g EXCEPT !.card[c].can_attack = TRUE], c, order)

\* DealDamage._play_phase; order is the order in which board.enemy_cards
\* lists the enemy's cards (the iteration order of a set).
DealDamagePlay(g, p, c, target_id, order) ==
    IF Catalog[c].can_target
    THEN IF BoardGetCard(g, target_id, p) = "ok"
         THEN Out(g, "InvalidTarget")
         ELSE BoardAttack([g EXCEPT !.card[c].can_attack = TRUE], c, target_id, FALSE)
    ELSE IF DiscardTarget(target_id) # "ok"
         THEN Out(g, "InvalidTarget")
         ELSE AttackEach(g, c, order)

\* Ability.apply(card, phase_name='play', ...): the ability's _play_phase, or
\* the default method that does nothing.
AbilityPlay(g, p, c, target_id, order) ==
    LET a == Catalog[c].ability
        val == Catalog[c].val
    IN  CASE a = "inc_damage" ->
               IF DiscardTarget(target_id) # "ok" THEN Out(g, "InvalidTarget")
               ELSE Out([g EXCEPT !.card[c].damage = @ + val], "ok")
          [] a = "inc_health" ->
               IF DiscardTarget(target_id) # "ok" THEN Out(g, "InvalidTarget")
               ELSE Out(IncreaseHealth(g, p, val), "ok")
          [] a = "set_stats" ->
               IF target_id = None THEN Out(g, "TargetNotDefined")
               ELSE IF BoardGetCard(g, target_id, p) # "ok" THEN Out(g, "MissingCard")
               ELSE Out([g EXCEPT !.card[target_id].health = Max(0, val),
                                  !.card[target_id].damage = val], "ok")
          [] a = "deal_damage" -> DealDamagePlay(g, p, c, target_id, order)
          [] OTHER -> Out(g, "ok")

\* Card.play after the ability returned r: was_played is set, unless the
\* ability raised.
SetWasPlayed(r, c) ==
    IF r.err # "ok" THEN r
    ELSE Out([r.g EXCEPT !.card[c].was_played = TRUE], "ok")

\* Card.play
BaseCardPlay(g, p, c, target_id, order) ==
    IF g.card[c].was_played THEN Out(g, "ok")
    ELSE SetWasPlayed(AbilityPlay(g, p, c, target_id, order), c)

\* MinionCard.play
MinionPlay(g, p, c, target_id, order) ==
    IF ~Catalog[c].can_target /\ target_id # None THEN Out(g, "InvalidTarget")
    ELSE LET b == BoardPlayCard(g, p, c)
         IN  IF b.err # "ok" THEN b
             ELSE BaseCardPlay(b.g, p, c, target_id, order)

CardPlay(g, p, c, target_id, order) ==
    IF Catalog[c].kind = "minion"
    THEN MinionPlay(g, p, c, target_id, order)
    ELSE BaseCardPlay(g, p, c, target_id, order)

\* Faulty variant: a played card stays in the hand.
PlayerPlay_KeepsCard(g, p, card_id, target_id, order) ==
    IF card_id \notin g.hand[p] THEN Out(g, "MissingCard")
    ELSE IF Catalog[card_id].cost > Mana(g, p) THEN Out(g, "NotEnoughMana")
    ELSE LET r == CardPlay(g, p, card_id, target_id, order)
         IN  IF r.err # "ok" THEN r
             ELSE Out([r.g EXCEPT !.used_mana[p] = @ + Catalog[card_id].cost,
                                  !.graveyard[p] = Append(@, card_id)], "ok")

\* Faulty variant: the cost is checked before the hand.
PlayerPlay_ManaFirst(g, p, card_id, target_id, order) ==
    IF Catalog[card_id].cost > Mana(g, p) THEN Out(g, "NotEnoughMana")
    ELSE IF card_id \notin g.hand[p] THEN Out(g, "MissingCard")
    ELSE LET r == CardPlay(g, p, card_id, target_id, order)
         IN  IF r.err # "ok" THEN r
             ELSE Out([r.g EXCEPT !.used_mana[p] = @ + Catalog[card_id].cost,
                                  !.hand[p] = @ \ {card_id},
                                  !.graveyard[p] = Append(@, card_id)], "ok")

\* Faulty variant: only a spell goes to the graveyard.
Discard_SpellsOnly(r, p, card_id) ==
    IF r.err # "ok" THEN r
    ELSE Out([r.g EXCEPT !.used_mana[p] = @ + Catalog[card_id].cost,
                         !.hand[p] = @ \ {card_id},
                         !.graveyard[p] = IF Catalog[card_id].kind = "spell"
                                          THEN Append(@, card_id) ELSE @], "ok")

\* Player.play after card.play returned r: the card is paid for and moved
\* from the hand to the graveyard, unless card.play raised.
Discard(r, p, card_id) ==
    IF r.err # "ok" THEN r
    ELSE Out([r.g EXCEPT !.used_mana[p] = @ + Catalog[card_id].cost,
                         !.hand[p] = @ \ {card_id},
                         !.graveyard[p] = Append(@, card_id)], "ok")

\* Player.play
PlayerPlay(g, p, card_id, target_id, order) ==
    IF card_id \notin g.hand[p] THEN Out(g, "MissingCard")
    ELSE IF Catalog[card_id].cost > Mana(g, p) THEN Out(g, "NotEnoughMana")
    ELSE Discard(CardPlay(g, p, card_id, target_id, order), p, card_id)

\* ------------------------------------------------------------------------
\* Game: turn orchestration
\* ------------------------------------------------------------------------

\* Faulty variant: the turn is checked before the start of the game.
CheckState_TurnFirst(g, player_id) ==
    IF player_id # PlayerId(CurrentPlayer(g)) THEN "InvalidPlayerTurn"
    ELSE IF ~g.started THEN "GameNotStarted"
    ELSE "ok"

CheckState(g, player_id) ==
    IF ~g.started THEN "GameNotStarted"
    ELSE IF player_id # PlayerId(CurrentPlayer(g)) THEN "InvalidPlayerTurn"
    ELSE "ok"

\* Faulty variant: the used mana is not reset.
ResetPlayer_KeepsUsedMana(g, p) ==
    TakeCards([g EXCEPT !.current_mana[p] = Min(@ + 1, MAX_MANA_LEVEL)], p, 1)

\* Faulty variant: the mana grows past MAX_MANA_LEVEL.
ResetPlayer_NoCap(g, p) ==
    TakeCards([g EXCEPT !.current_mana[p] = @ + 1, !.used_mana[p] = 0], p, 1)

ResetPlayer(g, p) ==
    LET g1 == [g EXCEPT !.current_mana[p] = Min(@ + 1, MAX_MANA_LEVEL),
                        !.used_mana[p] = 0]
    IN  TakeCards(g1, p, 1)

\* Faulty variant: the turn advances by two, back to the same player.
GameEndturn_SkipsPlayer(g, player_id) ==
    LET e == CheckState(g, player_id)
    IN  IF e # "ok" THEN Out(g, e)
        ELSE LET g1 == [g EXCEPT !.turn = @ + 2]
                 p == CurrentPlayer(g1)
             IN  ResetPlayer(ResetCards(g1, p), p)

GameEndturn(g, player_id) ==
    LET e == CheckState(g, player_id)
    IN  IF e # "ok" THEN Out(g, e)
        ELSE LET g1 == [g EXCEPT !.turn = @ + 1]
                 p == CurrentPlayer(g1)
             IN  ResetPlayer(ResetCards(g1, p), p)

\* Faulty variant: start() does not look at the started flag.
GameStart_Restarts(g) ==
    GameEndturn([g EXCEPT !.started = TRUE], PlayerId(CurrentPlayer(g)))

GameStart(g) ==
    IF ~g.started
    THEN GameEndturn([g EXCEPT !.started = TRUE], PlayerId(CurrentPlayer(g)))
    ELSE Out(g, "ok")

\* Game.attack: a victim_id that is a player's id stands for that Player.
GameAttack(g, player_id, attacker_id, victim_id) ==
    LET e == CheckState(g, player_id)
    IN  IF e # "ok" THEN Out(g, e)
        ELSE PlayerAttack(g, CurrentPlayer(g), attacker_id, victim_id,
                          victim_id \in PlayerIds)

\* Game.play
GamePlay(g, player_id, card_id, target_id, order) ==
    LET e == CheckState(g, player_id)
    IN  IF e # "ok" THEN Out(g, e)
        ELSE PlayerPlay(g, CurrentPlayer(g), card_id, target_id, order)

\* The orders in which a set may be iterated, one for each element that may
\* come first (the others ascending): the loop of DealDamage._play_phase
\* depends on the order through its first victim only.
RECURSIVE Ascending(_)
Ascending(S) ==
    IF S = {} THEN <<>>
    ELSE LET m == CHOOSE x \in S : \A y \in S : x <= y
         IN  <<m>> \o Ascending(S \ {m})

IterationOrders(S) ==
    IF S = {} THEN {<<>>} ELSE {<<f>> \o Ascending(S \ {f}) : f \in S}

\* ------------------------------------------------------------------------
\* The action generator (pyheart/tree.py)
\* ------------------------------------------------------------------------

\* The nodes the generator yields.  card is the attacker of an AttackNode and
\* the card of a PlayCartNode, target the victim of an AttackNode (a unit's or
\* a player's identifier) and the target of a PlayCartNode (None for no
\* target); an EndTurnNode has neither.
AttackNode(player, attacker, victim) ==
    [type |-> "AttackNode", player |-> player, card |-> attacker, target |-> victim,
     is_terminal |-> FALSE]
PlayCartNode(player, card, target) ==
    [type |-> "PlayCartNode", player |-> player, card |-> card, target |-> target,
     is_terminal |-> FALSE]
EndTurnNode(player) ==
    [type |-> "EndTurnNode", player |-> player, card |-> None, target |-> None,
     is_terminal |-> FALSE]

\* NonDeterministicPlayCartNode(chance, player, card, target): chance is the
\* quotient len(player.hand) / len(available_cards), kept as the pair of the
\* two lengths; in_hand tells whether the card is in the hand of the node's
\* own player object (self.player), the player of the game the node was
\* generated on, which is in the state the node was generated in whenever the
\* node is applied.
NonDeterministicPlayCartNode(chance, player, card, target, in_hand) ==
    [type |-> "NonDeterministicPlayCartNode", player |-> player, card |-> card,
     target |-> target, is_terminal |-> FALSE, chance |-> chance, in_hand |-> in_hand]

\* InitialGameNode()
InitialGameNode ==
    [type |-> "InitialGameNode", player |-> None, card |-> None, target |-> None,
     is_terminal |-> FALSE]

PlayNodes == {"PlayCartNode", "NonDeterministicPlayCartNode"}

\* Faulty variant: the card is put in the hand and stays in the deck.
Reveal_KeepsInDeck(g, action) ==
    LET p == PlayerOf(action.player)
    IN  IF action.type # "NonDeterministicPlayCartNode" \/ action.in_hand
        THEN Out(g, "ok")
        ELSE IF action.card \notin Range(g.all_cards[p]) THEN Out(g, "KeyError")
        ELSE Out([g EXCEPT !.hand[p] = @ \cup {action.card}],
                 IF action.card \in Range(g.deck[p]) THEN "ok" ELSE "ValueError")

\* The first lines of NonDeterministicPlayCartNode.apply: a card that is not
\* in the hand is moved from the deck of the game's player to the hand;
\* list.remove raises ValueError for a card the deck no longer holds, after
\* the hand took the card.  The other nodes do nothing here.
Reveal(g, action) ==
    LET p == PlayerOf(action.player)
    IN  IF action.type # "NonDeterministicPlayCartNode" \/ action.in_hand
        THEN Out(g, "ok")
        ELSE IF action.card \notin Range(g.all_cards[p]) THEN Out(g, "KeyError")
        ELSE Out([g EXCEPT !.hand[p] = @ \cup {action.card},
                           !.deck[p] = SelectSeq(@, LAMBDA c : c # action.card)],
                 IF action.card \in Range(g.deck[p]) THEN "ok" ELSE "ValueError")

\* PlayCartNode.apply on the game r.g that Reveal left.
PlayRevealed(r, action, order) ==
    IF r.err # "ok" THEN r
    ELSE GamePlay(r.g, action.player, action.card, action.target, order)

\* Node.apply(game_state)
NodeApply(g, action, order) ==
    CASE action.type = "AttackNode" ->
             GameAttack(g, action.player, action.card, action.target)
      [] action.type \in PlayNodes -> PlayRevealed(Reveal(g, action), action, order)
      [] action.type = "EndTurnNode" -> GameEndturn(g, action.player)
      [] action.type = "InitialGameNode" -> Out(g, "ok")

\* Game.copy: a deep copy, a game of its own with the same contents.
Copy(g) == g

\* The outcome of ActionGenerator._is_valid_action: g is the driving game as
\* the call leaves it, err the exception of the application to the copy.
Verdict(g, err) == [g |-> g, valid |-> err \notin InvalidActionErrors, err |-> err]

\* Faulty variant: the action is tried on the driving game itself.
IsValidAction_NoCopy(g, action, order) ==
    LET r == NodeApply(g, action, order)
    IN  Verdict(r.g, r.err)

\* Faulty variant: every candidate passes for valid.
IsValidAction_AcceptsAll(g, action, order) ==
    [Verdict(g, NodeApply(Copy(g), action, order).err) EXCEPT !.valid = TRUE]

\* ActionGenerator._is_valid_action
IsValidAction(g, action, order) ==
    Verdict(g, NodeApply(Copy(g), action, order).err)

\* ActionGenerator._handle_invalid_actions from the candidates all_actions
\* on, out being the nodes yielded so far: NextAction takes the next
\* candidate, Yield is the body of the loop for the candidate whose check
\* gave v.
RECURSIVE NextAction(_, _, _, _)
RECURSIVE Yield(_, _, _, _)
Yield(v, all_actions, order, out) ==
    IF v.err \notin InvalidActionErrors \cup {"ok", "DeadPlayer"}
    THEN [g |-> v.g, out |-> out, err |-> v.err]
    ELSE NextAction(v.g, Tail(all_actions), order,
             IF v.valid
             THEN Append(out, [Head(all_actions) EXCEPT
                                   !.is_terminal = (v.err = "DeadPlayer")])
             ELSE out)
NextAction(g, all_actions, order, out) ==
    IF all_actions = <<>> THEN [g |-> g, out |-> out, err |-> "ok"]
    ELSE Yield(IsValidAction(g, Head(all_actions), order), all_actions, order, out)

\* ActionGenerator._handle_invalid_actions over the candidates all_actions:
\* out is the sequence of the nodes yielded; an exception that is neither of
\* the InvalidAction family nor DeadPlayer ends the generator (err).  The
\* StopIteration that next(all_actions) raises after the last candidate ends
\* the generator, as the repository's tests expect (list(gen.attack_actions())
\* has a length); an interpreter with PEP 479 turns it into a RuntimeError
\* after the same nodes were yielded.
HandleInvalidActions(g, all_actions, order) == NextAction(g, all_actions, order, <<>>)

\* The results of random.shuffle on a list of the elements of S.
RECURSIVE Shuffles(_)
Shuffles(S) ==
    IF S = {} THEN {<<>>}
    ELSE UNION {{<<x>> \o s : s \in Shuffles(S \ {x})} : x \in S}

\* The concatenation of the sequences f[s[1]], f[s[2]], ...
RECURSIVE Flatten(_, _)
Flatten(s, f) == IF s = <<>> THEN <<>> ELSE f[Head(s)] \o Flatten(Tail(s), f)

\* ActionGenerator._all_attack_actions, for the shuffled player_cards and
\* enemy_targets.
AllAttackActions(g, player_cards, enemy_targets) ==
    Flatten(player_cards,
            [attacker \in Range(player_cards) |->
                [i \in DOMAIN enemy_targets |->
                    AttackNode(PlayerId(CurrentPlayer(g)), attacker, enemy_targets[i])]])

\* The candidates of ActionGenerator.attack_actions, over all the shuffles.
ShuffledAttackActions(g) ==
    {AllAttackActions(g, player_cards, enemy_targets) :
        player_cards \in Shuffles(PlayedCards(g, CurrentPlayer(g))),
        enemy_targets \in Shuffles(PlayedCards(g, NextPlayer(g))
                                       \cup {PlayerId(NextPlayer(g))})}

\* ActionGenerator._all_known_play_actions, for the shuffled hand and the
\* list player_cards as shuffled for each card.
AllKnownPlayActions(g, hand, player_cards) ==
    Flatten(hand,
            [card \in Range(hand) |->
                [i \in DOMAIN player_cards[card] |->
                    PlayCartNode(PlayerId(CurrentPlayer(g)), card, player_cards[card][i])]])

\* The candidates of ActionGenerator.play_actions of a generator whose player
\* is the current player of the game, over all the shuffles.
ShuffledPlayActions(g) ==
    LET p == CurrentPlayer(g)
    IN  {AllKnownPlayActions(g, hand, player_cards) :
            hand \in Shuffles(g.hand[p]),
            player_cards \in [g.hand[p] -> Shuffles(PlayedCards(g, p) \cup {None})]}

\* The cards of ActionGenerator._all_unknown_play_actions: those of the
\* current player's deck list that are neither on the board nor in the
\* graveyard.
AvailableCards(g) ==
    LET p == CurrentPlayer(g)
    IN  Range(g.all_cards[p]) \ (PlayedCards(g, p) \cup Range(g.graveyard[p]))

\* ActionGenerator._all_unknown_play_actions, for the shuffled
\* available_cards and the list potential_targets as shuffled for each card.
AllUnknownPlayActions(g, available_cards, potential_targets) ==
    LET p == CurrentPlayer(g)
    IN  Flatten(available_cards,
            [card \in Range(available_cards) |->
                [i \in DOMAIN potential_targets[card] |->
                    NonDeterministicPlayCartNode(
                        <<Cardinality(g.hand[p]), Len(available_cards)>>,
                        PlayerId(p), card, potential_targets[card][i],
                        card \in g.hand[p])]])

\* The candidates of ActionGenerator.play_actions of a generator whose player
\* is not the current player of the game, over all the shuffles.
ShuffledUnknownPlayActions(g) ==
    {AllUnknownPlayActions(g, available_cards, potential_targets) :
        available_cards \in Shuffles(AvailableCards(g)),
        potential_targets \in [AvailableCards(g) ->
                                   Shuffles(PlayedCards(g, CurrentPlayer(g)) \cup {None})]}

\* The candidate of ActionGenerator.endturn_action.
EndturnCandidates(g) == {<<EndTurnNode(PlayerId(CurrentPlayer(g)))>>}

\* ActionGenerator.attack_actions, play_actions and endturn_action, by name:
\* the candidates of the method, passed through _handle_invalid_actions.
\* unknown_play_actions is play_actions for a generator whose player is not
\* the current player of the game: with no available card, the division
\* that computes chance raises ZeroDivisionError before any candidate.
Generator(name, g, order) ==
    IF name = "unknown_play_actions" /\ AvailableCards(g) = {}
    THEN {[g |-> g, out |-> <<>>, err |-> "ZeroDivisionError"]}
    ELSE {HandleInvalidActions(g, all_actions, order) :
            all_actions \in
                CASE name = "attack_actions" -> ShuffledAttackActions(g)
                  [] name = "play_actions" -> ShuffledPlayActions(g)
                  [] name = "unknown_play_actions" -> ShuffledUnknownPlayActions(g)
                  [] name = "endturn_action" -> EndturnCandidates(g)}

\* The generators in the list drawn to their end, each on the game the one
\* before it left: outs are the nodes each has yielded, in the list's order.
RECURSIVE Drain(_, _, _)
Drain(generators, g, order) ==
    IF generators = <<>> THEN {[g |-> g, outs |-> <<>>, errs |-> <<>>, err |-> "ok"]}
    ELSE UNION {{[g |-> rest.g, outs |-> <<r.out>> \o rest.outs,
                  errs |-> <<r.err>> \o rest.errs,
                  err |-> IF r.err # "ok" THEN r.err ELSE rest.err] :
                    rest \in Drain(Tail(generators), r.g, order)} :
                r \in Generator(Head(generators), g, order)}

\* The orders in which two generators, and a list of them, can be drawn from.
RECURSIVE Merge2(_, _)
Merge2(a, b) ==
    IF a = <<>> THEN {b}
    ELSE IF b = <<>> THEN {a}
    ELSE {<<Head(a)>> \o m : m \in Merge2(Tail(a), b)}
             \cup {<<Head(b)>> \o m : m \in Merge2(a, Tail(b))}
RECURSIVE Merge(_)
Merge(outs) ==
    IF outs = <<>> THEN {<<>>}
    ELSE UNION {Merge2(Head(outs), m) : m \in Merge(Tail(outs))}

\* Faulty variant: the end of the turn is not among the generators.
RandomGenerators_NoEndturn == <<"play_actions", "attack_actions">>

\* The list generators of ActionGenerator.random_actions.
RandomGenerators == <<"play_actions", "attack_actions", "endturn_action">>

\* Faulty variant: play_actions takes the hand of the current player as
\* known whoever the generator was made for.
GeneratorsOf_AlwaysKnown(g, player) == RandomGenerators

\* The list generators of random_actions of a generator made for player:
\* play_actions takes the unknown candidates when the current player of the
\* game is not the generator's player.
GeneratorsOf(g, player) ==
    [i \in DOMAIN RandomGenerators |->
        IF RandomGenerators[i] = "play_actions" /\ CurrentPlayer(g) # player
        THEN "unknown_play_actions" ELSE RandomGenerators[i]]

\* The actions up to the first one that is terminal, that one included.
UpToTerminal(actions) ==
    LET terminal == {i \in DOMAIN actions : actions[i].is_terminal}
    IN  IF terminal = {} THEN actions
        ELSE SubSeq(actions, 1, CHOOSE i \in terminal : \A j \in terminal : i <= j)

\* The methods of a generator that yield actions.
GeneratorMethods ==
    {"attack_actions", "play_actions", "endturn_action", "random_actions", "__iter__"}

\* The outcomes of listing what a method of the generator yields.
\* random_actions draws from its three generators in any order until each has
\* ended; __iter__ with apply = False yields the actions of one
\* random_actions generator until it ends or has yielded a terminal action.
Enumerate(method, g, order) ==
    LET generators == IF method \in {"random_actions", "__iter__"}
                      THEN RandomGenerators ELSE <<method>>
    IN  UNION {{[g |-> d.g, err |-> d.err,
                 out |-> IF method = "__iter__" THEN UpToTerminal(out) ELSE out] :
                    out \in Merge(d.outs)} :
               d \in Drain(generators, g, order)}

\* ActionGenerator.random_actions and ActionGenerator.__iter__
RandomActions(g, order) == Enumerate("random_actions", g, order)
Iterate(g, order) == Enumerate("__iter__", g, order)

\* The place in a sequence of draws at which a generator raised err.
Raised(err) == [type |-> "raise", err |-> err, is_terminal |-> FALSE]

\* What the generators of random_actions give for a generator made for
\* player, in every order of drawing from them: the nodes in the order
\* yielded and, where a generator ended with an exception that is not
\* StopIteration, that exception after the nodes the generator yielded.
Draws(g, player, order) ==
    UNION {Merge([i \in DOMAIN d.outs |->
                     IF d.errs[i] = "ok" THEN d.outs[i]
                     ELSE Append(d.outs[i], Raised(d.errs[i]))]) :
           d \in Drain(GeneratorsOf(g, player), g, order)}

\* The loop of ActionGenerator.__iter__ with apply = False over the draws:
\* out are the nodes yielded, up to the first terminal one, err the
\* exception that ended the loop before such a node was drawn.
Loop(draws) ==
    LET stop == {i \in DOMAIN draws : draws[i].type = "raise" \/ draws[i].is_terminal}
        cut == IF stop = {} THEN Len(draws)
               ELSE CHOOSE i \in stop : \A j \in stop : i <= j
    IN  IF cut > 0 /\ draws[cut].type = "raise"
        THEN [out |-> SubSeq(draws, 1, cut - 1), err |-> draws[cut].err]
        ELSE [out |-> SubSeq(draws, 1, cut), err |-> "ok"]

\* list(ActionGenerator(g, player=player))
IterateFor(g, player, order) == {Loop(draws) : draws \in Draws(g, player, order)}

\* next(ActionGenerator(g, player=player).random_actions()): the node or
\* the exception that comes first.
FirstActions(g, player, order) ==
    {IF draws = <<>> THEN Raised("StopIteration") ELSE Head(draws) :
        draws \in Draws(g, player, order)}

\* ------------------------------------------------------------------------
\* The game tree (pyheart/tree.py): Node
\* ------------------------------------------------------------------------

\* Rewards, wins and losses are rationals [n, d] with d > 0, in lowest terms
\* (the code computes them in floating point).
RECURSIVE GCD(_, _)
GCD(a, b) == IF b = 0 THEN a ELSE GCD(b, a % b)
Abs(x) == IF x < 0 THEN -x ELSE x
Rat(n, d) ==
    LET k == GCD(Abs(n), d)
    IN  IF n = 0 THEN [n |-> 0, d |-> 1] ELSE [n |-> n \div k, d |-> d \div k]
RatAdd(a, b) == Rat(a.n * b.d + b.n * a.d, a.d * b.d)
RatMul(a, b) == Rat(a.n * b.n, a.d * b.d)
RatLess(a, b) == a.n * b.d < b.n * a.d
Zero == Rat(0, 1)

\* hash(x) ^ hash(y) for the identifiers in S and x: the identifiers met an
\* odd number of times.
Xor(S, x) == IF x \in S THEN S \ {x} ELSE S \cup {x}

\* Node.__hash__ and its overrides: the class and the exclusive or of the
\* hashes of the attributes.
NodeHash(a) ==
    CASE a.type \in PlayNodes \cup {"AttackNode"} ->
             <<a.type, Xor(Xor({a.player}, a.card), a.target)>>
      [] a.type = "EndTurnNode" -> <<a.type, {a.player}>>
      [] OTHER -> <<a.type, {}>>

\* a == b: PlayCartNode.__eq__ compares player, card and target with another
\* PlayCartNode (a NonDeterministicPlayCartNode is one); every other pair is
\* compared by Node.__eq__, by hash.
NodeEq(a, b) ==
    IF a.type \in PlayNodes /\ b.type \in PlayNodes
    THEN a.player = b.player /\ a.card = b.card /\ a.target = b.target
    ELSE NodeHash(a) = NodeHash(b)

\* Node.__init__ for the node of an action: a node is its action with the
\* statistics of the search.
Node(action) ==
    [action |-> action, visits |-> 0, wins |-> Zero, losses |-> Zero,
     is_expandable |-> TRUE]

\* A tree is a function from paths to nodes: the root has the path <<>>, the
\* i-th child (in the order of ChildrenContainer._list) of the node with path
\* q the path Append(q, i); the parent of a node is the node of the path
\* without its last index, and the root has none.
IsPrefix(q, path) == Len(q) <= Len(path) /\ SubSeq(path, 1, Len(q)) = q
Children(nodes, path) ==
    LET n == Cardinality({q \in DOMAIN nodes : Len(q) = Len(path) + 1 /\ IsPrefix(path, q)})
    IN  [i \in 1..n |-> Append(path, i)]

\* ChildrenContainer.__contains__: the lookup in a set, by hash and ==.
Contains(nodes, path, item) ==
    \E i \in DOMAIN Children(nodes, path) :
        LET child == nodes[Append(path, i)].action
        IN  NodeHash(child) = NodeHash(item) /\ NodeEq(child, item)

\* Node.add_child for a new node of the action: nothing is added when the
\* container holds an equal child.
AddChild(nodes, path, action) ==
    IF Contains(nodes, path, action) THEN nodes
    ELSE LET q == Append(path, Len(Children(nodes, path)) + 1)
         IN  [x \in DOMAIN nodes \cup {q} |-> IF x = q THEN Node(action) ELSE nodes[x]]

\* Node.find_node: the queue takes the children of each node it pops on the
\* left and pops on the right, so the nodes are met level by level, the
\* children of a node in their order; the result is the path of the first
\* node equal to the one looked for, <<None>> standing for the result None.
RECURSIVE Search(_, _, _)
Search(nodes, queue, node) ==
    IF queue = <<>> THEN <<None>>
    ELSE IF NodeEq(nodes[Head(queue)].action, node) THEN Head(queue)
    ELSE Search(nodes, Tail(queue) \o Children(nodes, Head(queue)), node)

FindNode(nodes, node) == Search(nodes, << <<>> >>, node)

\* The subtree of the node with the path q, as a tree of its own.
Subtree(nodes, q) ==
    [x \in {SubSeq(y, Len(q) + 1, Len(y)) : y \in {z \in DOMAIN nodes : IsPrefix(q, z)}} |->
        nodes[q \o x]]

\* Node.backup, from the node with the given path up to the root: a
\* NonDeterministicPlayCartNode multiplies the reward by its chance, and the
\* reward a node accumulates is the one it passes to its parent.
\* Faulty variant: the parents of the node are not visited.
Backup_NodeOnly(nodes, path, reward) ==
    LET a == nodes[path].action
        r == IF a.type = "NonDeterministicPlayCartNode"
             THEN RatMul(reward, Rat(a.chance[1], a.chance[2])) ELSE reward
    IN  [nodes EXCEPT ![path].visits = @ + 1,
                      ![path].wins = IF r.n > 0 THEN RatAdd(@, r) ELSE @,
                      ![path].losses = IF r.n > 0 THEN @
                                       ELSE RatAdd(@, Rat(Abs(r.n), r.d))]

\* Faulty variant: a NonDeterministicPlayCartNode accumulates the scaled
\* reward and passes the reward it received to its parent.
RECURSIVE Backup_ScaledLocally(_, _, _)
Backup_ScaledLocally(nodes, path, reward) ==
    LET a == nodes[path].action
        r == IF a.type = "NonDeterministicPlayCartNode"
             THEN RatMul(reward, Rat(a.chance[1], a.chance[2])) ELSE reward
        visited == [nodes EXCEPT ![path].visits = @ + 1,
                                 ![path].wins = IF r.n > 0 THEN RatAdd(@, r) ELSE @,
                                 ![path].losses = IF r.n > 0 THEN @
                                                  ELSE RatAdd(@, Rat(Abs(r.n), r.d))]
    IN  IF path = <<>> THEN visited
        ELSE Backup_ScaledLocally(visited, SubSeq(path, 1, Len(path) - 1), reward)

RECURSIVE Backup(_, _, _)
Backup(nodes, path, reward) ==
    LET a == nodes[path].action
        r == IF a.type = "NonDeterministicPlayCartNode"
             THEN RatMul(reward, Rat(a.chance[1], a.chance[2])) ELSE reward
        visited == [nodes EXCEPT ![path].visits = @ + 1,
                                 ![path].wins = IF r.n > 0 THEN RatAdd(@, r) ELSE @,
                                 ![path].losses = IF r.n > 0 THEN @
                                                  ELSE RatAdd(@, Rat(Abs(r.n), r.d))]
    IN  IF path = <<>> THEN visited
        ELSE Backup(visited, SubSeq(path, 1, Len(path) - 1), r)

\* ------------------------------------------------------------------------
\* The game tree (pyheart/tree.py): GameTree
\* ------------------------------------------------------------------------

\* The outcome of a method that returns a node: the tree as the method
\* leaves it, the path of the node and the exception raised.
Found(nodes, node, err) == [nodes |-> nodes, node |-> node, err |-> err]

\* The loop of GameTree.reply_game from the k-th node of the path on, r being
\* the outcome of the actions applied so far.
RECURSIVE Replay(_, _, _, _, _)
Replay(nodes, r, path, k, order) ==
    IF k > Len(path) \/ r.err # "ok" THEN r
    ELSE Replay(nodes, NodeApply(r.g, nodes[SubSeq(path, 1, k)].action, order),
                path, k + 1, order)

\* The outcome r of the replay with the tree's own game as the call left it.
Replied(r, own) == [g |-> r.g, err |-> r.err, who |-> r.who, own |-> own]

\* Faulty variant: the actions are applied to the tree's game itself.
ReplyGame_NoCopy(nodes, g, path, order) ==
    Replied(Replay(nodes, Out(g, "ok"), path, 1, order),
            Replay(nodes, Out(g, "ok"), path, 1, order).g)

\* GameTree.reply_game: the actions of node.path, the root's excepted, from
\* the root's child down to the node, applied to a copy of the tree's game;
\* own is the tree's game after the call.
ReplyGame(nodes, g, path, order) ==
    Replied(Replay(nodes, Out(Copy(g), "ok"), path, 1, order), g)

\* The rest of GameTree.expand for the actions listed: the node stops being
\* expandable when at most one of them is not among its children, and one of
\* those that are not becomes a child.
ExpandWith(nodes, path, listed) ==
    LET valid_actions == SelectSeq(listed.out, LAMBDA a : ~Contains(nodes, path, a))
        marked == [nodes EXCEPT ![path].is_expandable =
                                    IF Len(valid_actions) <= 1 THEN FALSE ELSE @]
    IN  IF listed.err # "ok" THEN {Found(nodes, path, listed.err)}
        ELSE IF valid_actions = <<>> THEN {Found(marked, path, "ok")}
        ELSE {Found(AddChild(marked, path, valid_actions[i]),
                    Append(path, Len(Children(nodes, path)) + 1), "ok") :
                 i \in DOMAIN valid_actions}

\* GameTree.expand after reply_game gave r.
ExpandOn(r, nodes, path, player, order) ==
    IF r.err # "ok" THEN {Found(nodes, path, r.err)}
    ELSE UNION {ExpandWith(nodes, path, listed) :
                   listed \in IterateFor(r.g, player, order)}

\* GameTree.expand(node) of a tree whose game is g and whose player is
\* player.
Expand(nodes, g, path, player, order) ==
    ExpandOn(ReplyGame(nodes, g, path, order), nodes, path, player, order)

\* math.log of 1..8, in thousandths.
Ln1000 == <<0, 693, 1099, 1386, 1609, 1792, 1946, 2079>>

\* The integer part of the square root.
ISqrt(x) == CHOOSE r \in 0..x : r * r <= x /\ (r + 1) * (r + 1) > x

\* Node.score, in thousandths.
Score1000(n) ==
    LET total_games == RatAdd(n.wins, n.losses)
    IN  IF total_games.n = 0 THEN 0
        ELSE (1000 * n.wins.n * total_games.d) \div (n.wins.d * total_games.n)

\* The scoring function of GameTree._calculate_uct for a child of the tree's
\* player, in thousandths: score + 2 * (1 / sqrt(2)) * sqrt(2 * log(parent
\* visits) / child visits) is score + 2 * sqrt(log(parent visits) / child
\* visits).
Uct1000(parent, child) ==
    Score1000(child) + 2 * ISqrt((1000 * Ln1000[parent.visits]) \div child.visits)

\* Node.best_child with the scoring function of GameTree._calculate_uct, for
\* a node with two children or more: the last of the children sorted by
\* score, which among children of equal score is the one added last.  A
\* child of the other player scores -random.random(), so that when all are
\* the other player's any of them can come last.  log raises ValueError for
\* a parent never visited, the division ZeroDivisionError for a child never
\* visited.
BestByUct(nodes, path, player) ==
    LET children == Children(nodes, path)
        own == {i \in DOMAIN children : nodes[children[i]].action.player = PlayerId(player)}
        best == {i \in own : \A j \in own :
                    LET a == Uct1000(nodes[path], nodes[children[i]])
                        b == Uct1000(nodes[path], nodes[children[j]])
                    IN  b < a \/ (b = a /\ j <= i)}
    IN  IF own = {} THEN {Found(nodes, children[i], "ok") : i \in DOMAIN children}
        ELSE IF nodes[path].visits = 0 THEN {Found(nodes, path, "ValueError")}
        ELSE IF \E i \in own : nodes[children[i]].visits = 0
             THEN {Found(nodes, path, "ZeroDivisionError")}
        ELSE {Found(nodes, children[i], "ok") : i \in best}

\* Node.best_child as GameTree.tree_policy calls it: None for a leaf, which
\* tree_policy then asks for is_terminal (AttributeError).
BestChild(nodes, path, player) ==
    LET children == Children(nodes, path)
    IN  IF children = <<>> THEN {Found(nodes, path, "AttributeError")}
        ELSE IF Len(children) = 1 THEN {Found(nodes, children[1], "ok")}
        ELSE BestByUct(nodes, path, player)

\* GameTree.tree_policy from the node with the given path on.
RECURSIVE Descend(_, _, _, _, _)
Descend(nodes, g, path, player, order) ==
    IF nodes[path].action.is_terminal THEN {Found(nodes, path, "ok")}
    ELSE IF nodes[path].is_expandable THEN Expand(nodes, g, path, player, order)
    ELSE UNION {IF b.err # "ok" THEN {b} ELSE Descend(nodes, g, b.node, player, order) :
                   b \in BestChild(nodes, path, player)}

TreePolicy(nodes, g, player, order) == Descend(nodes, g, <<>>, player, order)

\* Faulty variant: the child added first is the best action.
BestAction_First(nodes) ==
    IF Children(nodes, <<>>) = <<>> THEN <<None>> ELSE <<1>>

\* GameTree.best_action: the last of the root's children sorted by wins,
\* which among children of equal wins is the one added last; <<None>> stands
\* for the result None.
BestAction(nodes) ==
    LET children == Children(nodes, <<>>)
    IN  IF children = <<>> THEN <<None>>
        ELSE children[CHOOSE i \in DOMAIN children : \A j \in DOMAIN children :
                 \/ RatLess(nodes[children[j]].wins, nodes[children[i]].wins)
                 \/ nodes[children[j]].wins = nodes[children[i]].wins /\ j <= i]

\* The tree of GameTree.play after find_node gave found: the found node
\* with its subtree, or a new InitialGameNode.
Reroot(nodes, found) ==
    IF found = <<None>> THEN (<<>> :> Node(InitialGameNode))
    ELSE Subtree(nodes, found)

\* ------------------------------------------------------------------------
\* Construction: Game.__init__, Player.__init__, Deck.__init__, Card.__init__
\* ------------------------------------------------------------------------

\* The runtime fields of a card after its constructor ran the ability's init
\* phase.
NewCard(c) ==
    LET k == Catalog[c]
    IN  [damage |-> IF k.ability = "deal_damage" THEN k.val ELSE k.attack,
         health |-> k.health,
         can_attack |-> (k.ability = "charge"),
         was_played |-> FALSE]

NewGame(decks) ==
    LET n(p) == NUMBERS_OF_START_CARDS[p + 1]
    IN  [started |-> FALSE,
         turn |-> 0,
         health |-> [p \in Players |-> HEALTH_LEVEL],
         current_mana |-> [p \in Players |-> 0],
         used_mana |-> [p \in Players |-> 0],
         all_cards |-> [p \in Players |-> decks[p + 1]],
         deck |-> [p \in Players |-> SubSeq(decks[p + 1], n(p) + 1, Len(decks[p + 1]))],
         empty_card |-> [p \in Players |-> 0],
         hand |-> [p \in Players |-> Range(SubSeq(decks[p + 1], 1, n(p)))],
         graveyard |-> [p \in Players |-> <<>>],
         player_cards |-> [p \in Players |-> {}],
         board_cards |-> {},
         card |-> [c \in Range(decks[1]) \cup Range(decks[2]) |-> NewCard(c)]]

\* ------------------------------------------------------------------------
\* The state machine
\* ------------------------------------------------------------------------

\* game: the Game object; last: the last call made on it, with the exception
\* it raised; yielded: the actions the last call yielded, when it was the
\* call of a generator's method.
\* tree: the GameTree built on the game (its game is `game`), player the
\* position of its player and nodes its nodes by path; rollout: the place of
\* GameTree.run in its iteration, with the node selected, the game of the
\* rollout, the action the rollout yielded last and the exception that ended
\* it.
VARIABLES game, last, yielded, tree, rollout

vars == <<game, last, yielded, tree, rollout>>

\* The setup the game was constructed from.
Setup == CHOOSE s \in Setups \cup {GeneratorSetup} \cup TreeSetups : \A p \in Players : s.decks[p + 1] = game.all_cards[p]

\* No tree, and no iteration of run under way.
NoTree == [player |-> None, nodes |-> <<>>]
Idle(action, err) ==
    [pc |-> "idle", node |-> <<>>, game |-> None, action |-> action, err |-> err]

Init ==
    /\ \E s \in Setups : game = NewGame(s.decks)
    /\ last = [op |-> "new", pid |-> None, err |-> "ok", who |-> None]
    /\ yielded = <<>>
    /\ tree = NoTree
    /\ rollout = Idle(InitialGameNode, "ok")

\* A call of an engine method by player pid with outcome r.
Apply(op, pid, r) ==
    /\ game' = r.g
    /\ last' = [op |-> op, pid |-> pid, err |-> r.err, who |-> r.who]
    /\ yielded' = <<>>
    /\ UNCHANGED <<tree, rollout>>

\* The identifiers the callers pass as target and as victim.
TargetIds == Setup.units \cup {None}
VictimIds == Setup.units \cup PlayerIds

Start == Apply("start", None, GameStart(game))

EndTurn(pid) ==
    /\ Turn(game) < Setup.turns \/ CheckState(game, pid) # "ok"
    /\ Apply("endturn", pid, GameEndturn(game, pid))

InOrder(cid) ==
    Setup.in_order =>
        \A c \in game.hand[CurrentPlayer(game)] \cap Setup.cards : cid <= c

Play(pid, cid, tid) ==
    /\ InOrder(cid)
    /\ \E order \in IterationOrders(EnemyCards(game, CurrentPlayer(game))) :
           Apply("play", pid, GamePlay(game, pid, cid, tid, order))

Attack(pid, aid, vid) == Apply("attack", pid, GameAttack(game, pid, aid, vid))

\* list(ActionGenerator(game).method()), after a call of the engine.
Generate(method) ==
    /\ last.op \notin GeneratorMethods
    /\ \E order \in IterationOrders(EnemyCards(game, CurrentPlayer(game))) :
           \E r \in Enumerate(method, game, order) :
               /\ game' = r.g
               /\ last' = [op |-> method, pid |-> PlayerId(CurrentPlayer(game)),
                           err |-> r.err, who |-> None]
               /\ yielded' = r.out
               /\ UNCHANGED <<tree, rollout>>

Next ==
    \/ Start
    \/ \E pid \in PlayerIds : EndTurn(pid)
    \/ \E pid \in PlayerIds, cid \in Setup.cards, tid \in TargetIds : Play(pid, cid, tid)
    \/ \E pid \in PlayerIds, aid \in Setup.units, vid \in VictimIds : Attack(pid, aid, vid)

Spec == Init /\ [][Next]_vars

\* The engine and the action generators built on its game.
InitGen ==
    /\ game = NewGame(GeneratorSetup.decks)
    /\ last = [op |-> "new", pid |-> None, err |-> "ok", who |-> None]
    /\ yielded = <<>>
    /\ tree = NoTree
    /\ rollout = Idle(InitialGameNode, "ok")

NextGen ==
    \/ Next
    \/ \E method \in GeneratorMethods : Generate(method)

GenSpec == InitGen /\ [][NextGen]_vars

\* The game g played up to the given turn by players who first try, without
\* a target, the minions with a targeted DealDamage they hold, can pay for
\* and have not yet put on the board, then play the spells they can pay for,
\* the one with the least identifier first, and end their turn when they
\* have none.
RECURSIVE Opening(_, _)
Opening(g, turn) ==
    LET p == CurrentPlayer(g)
        paid == {c \in g.hand[p] : Catalog[c].cost <= Mana(g, p)}
        tried == {c \in paid \ g.board_cards :
                     /\ Catalog[c].kind = "minion"
                     /\ Catalog[c].ability = "deal_damage"
                     /\ Catalog[c].can_target}
        spells == {c \in paid : Catalog[c].kind = "spell"}
    IN  IF Turn(g) >= turn THEN g
        ELSE IF tried # {}
        THEN Opening(GamePlay(g, PlayerId(p),
                              CHOOSE c \in tried : \A d \in tried : c <= d,
                              None, <<>>).g, turn)
        ELSE IF spells = {} THEN Opening(GameEndturn(g, PlayerId(p)).g, turn)
        ELSE Opening(GamePlay(g, PlayerId(p),
                              CHOOSE c \in spells : \A d \in spells : c <= d,
                              None, <<>>).g, turn)

\* GameTree(game_state) for the game of a tree setup after its opening: the
\* tree's game is a copy of game_state, its player the current player, its
\* root an InitialGameNode.
InitTree ==
    /\ \E s \in TreeSetups :
           game = Copy(Opening(GameStart(NewGame(s.decks)).g, s.turns))
    /\ last = [op |-> "new", pid |-> None, err |-> "ok", who |-> None]
    /\ yielded = <<>>
    /\ tree = [player |-> CurrentPlayer(game), nodes |-> (<<>> :> Node(InitialGameNode))]
    /\ rollout = Idle(InitialGameNode, "ok")

\* The orders in which the cards of the enemy of g's current player may be
\* iterated.
Orders(g) == IterationOrders(EnemyCards(g, CurrentPlayer(g)))

\* The end of a call on the tree that leaves the nodes given, raising err.
Return(op, nodes, err, who, result) ==
    /\ tree' = [tree EXCEPT !.nodes = nodes]
    /\ last' = [op |-> op, pid |-> None, err |-> err, who |-> who]
    /\ yielded' = result

\* The game of the tree is not over.
Alive == \A p \in Players : game.health[p] > 0

\* GameTree.expand(node), for a node of the tree.
TreeExpand(path) ==
    /\ rollout.pc = "idle"
    /\ Alive
    /\ \E order \in Orders(game) :
           \E f \in Expand(tree.nodes, game, path, tree.player, order) :
               /\ Cardinality(DOMAIN f.nodes) <= MaxNodes
               /\ Return("expand", f.nodes, f.err, None, <<>>)
               /\ game' = ReplyGame(tree.nodes, game, path, order).own
    /\ rollout' = Idle(InitialGameNode, "ok")

\* The result of GameTree.run: best_action, as the list of the action or,
\* for None, the empty list.
Result(nodes) ==
    IF BestAction(nodes) = <<None>> THEN <<>> ELSE <<nodes[BestAction(nodes)].action>>

\* The end of GameTree.default_policy with the DeadPlayerError that carries
\* the player who, and what run does next: the reward is -1 when who is the
\* tree's player and 1 otherwise, backup takes it from the node up, and run
\* returns best_action.
Rewarded(nodes, node, who, action) ==
    /\ Return("run", Backup(nodes, node,
                            IF who = PlayerId(tree.player) THEN Rat(-1, 1) ELSE Rat(1, 1)),
              "ok", who,
              Result(Backup(nodes, node,
                            IF who = PlayerId(tree.player) THEN Rat(-1, 1) ELSE Rat(1, 1))))
    /\ rollout' = [Idle(action, "DeadPlayer") EXCEPT !.node = node]

\* The end of GameTree.run with the exception err that default_policy does
\* not catch; a default_policy that returns None makes backup compare None
\* with 0 (TypeError).
Aborted(nodes, action, err) ==
    /\ Return("run", nodes, IF err = "ok" THEN "TypeError" ELSE err, None, <<>>)
    /\ rollout' = Idle(action, err)

\* GameTree.default_policy(node) after reply_game gave r: DeadPlayerError
\* ends it with a reward, any other exception ends run, and otherwise the
\* iteration of ActionGenerator(game, apply=True, player=self.player) starts.
Rollout(nodes, node, r) ==
    /\ game' = r.own
    /\ IF r.err = "DeadPlayer" THEN Rewarded(nodes, node, r.who, rollout.action)
       ELSE IF r.err # "ok" THEN Aborted(nodes, rollout.action, r.err)
       ELSE /\ Return("tree_policy", nodes, "ok", None, <<>>)
            /\ rollout' = [pc |-> "rollout", node |-> node, game |-> r.g,
                           action |-> InitialGameNode, err |-> "ok"]

\* GameTree.run(1) up to the start of the rollout: tree_policy selects a
\* node, default_policy replays the game to it.
Run ==
    /\ rollout.pc = "idle"
    /\ Alive
    /\ tree.nodes[<<>>].visits < MaxIterations
    /\ \E order \in Orders(game) :
           \E selected \in TreePolicy(tree.nodes, game, tree.player, order) :
               /\ Cardinality(DOMAIN selected.nodes) <= MaxNodes
               /\ IF selected.err # "ok"
                  THEN Aborted(selected.nodes, rollout.action, selected.err)
                           /\ UNCHANGED game
                  ELSE Rollout(selected.nodes, selected.node,
                               ReplyGame(selected.nodes, game, selected.node, order))

\* One round of the loop of ActionGenerator.__iter__ with apply = True, r
\* being the outcome of applying the action drawn to the game of the rollout:
\* a terminal action ends the loop, and default_policy applies it.
Yielded(action, r) ==
    IF r.err = "DeadPlayer" THEN Rewarded(tree.nodes, rollout.node, r.who, action)
    ELSE IF r.err # "ok" \/ action.is_terminal THEN Aborted(tree.nodes, action, r.err)
    ELSE /\ rollout' = [rollout EXCEPT !.game = r.g, !.action = action]
         /\ last' = [op |-> "__iter__", pid |-> action.player, err |-> "ok", who |-> None]
         /\ yielded' = <<action>>
         /\ UNCHANGED tree

\* The rollout of GameTree.default_policy, one action at a time.
RolloutStep ==
    /\ rollout.pc = "rollout"
    /\ \E order \in Orders(rollout.game) :
           \E action \in FirstActions(rollout.game, tree.player, order) :
               IF action.type = "raise"
               THEN Aborted(tree.nodes, rollout.action, action.err)
               ELSE Yielded(action, NodeApply(rollout.game, action, order))
    /\ UNCHANGED game

\* The nodes a caller passes to GameTree.play: a child of the root (the
\* result of run) or a legal action of the game's current player.
Moves(order) ==
    {tree.nodes[<<i>>].action : i \in DOMAIN Children(tree.nodes, <<>>)}
        \cup UNION {Range(r.out) : r \in RandomActions(game, order)}

\* GameTree.play(node)
Played(node, found, r) ==
    /\ game' = r.g
    /\ tree' = [tree EXCEPT !.nodes = Reroot(tree.nodes, found)]
    /\ last' = [op |-> "tree_play", pid |-> node.player, err |-> r.err, who |-> r.who]
    /\ yielded' = <<node>>
    /\ rollout' = Idle(InitialGameNode, "ok")

TreePlay ==
    /\ rollout.pc = "idle"
    /\ Alive
    /\ \E order \in Orders(game) :
           \E node \in Moves(order) :
               Played(node, FindNode(tree.nodes, node), NodeApply(game, node, order))

NextTree ==
    \/ \E path \in DOMAIN tree.nodes : TreeExpand(path)
    \/ Run
    \/ RolloutStep
    \/ TreePlay

TreeSpec == InitTree /\ [][NextTree]_vars

\* ------------------------------------------------------------------------
\* Properties
\* ------------------------------------------------------------------------

Cur == CurrentPlayer(game)

\* The calls of play the callers make in a state, as the Play action draws
\* them, and their outcomes.
PlayCalls ==
    {<<pid, cid, tid, order>> \in
        PlayerIds \X Setup.cards \X TargetIds \X IterationOrders(EnemyCards(game, Cur)) :
        InOrder(cid)}
PlayOutcome(call) == GamePlay(game, call[1], call[2], call[3], call[4])

\* Everything the game holds of player p is the same in g and h.
Untouched(g, h, p) ==
    /\ h.health[p] = g.health[p]
    /\ h.current_mana[p] = g.current_mana[p]
    /\ h.used_mana[p] = g.used_mana[p]
    /\ h.hand[p] = g.hand[p]
    /\ h.graveyard[p] = g.graveyard[p]
    /\ h.deck[p] = g.deck[p]
    /\ h.empty_card[p] = g.empty_card[p]
    /\ h.player_cards[p] = g.player_cards[p]
    /\ \A c \in Range(g.all_cards[p]) : h.card[c] = g.card[c]

\* From g to h player q drew the first card of their deck.
DrewCard(g, h, q) ==
    /\ g.deck[q] # <<>>
    /\ h.hand[q] = g.hand[q] \cup {Head(g.deck[q])}
    /\ Cardinality(h.hand[q]) = Cardinality(g.hand[q]) + 1
    /\ h.deck[q] = Tail(g.deck[q])
    /\ h.health[q] = g.health[q]
    /\ h.empty_card[q] = g.empty_card[q]

\* From g to h player q drew from their empty deck and took the fatigue.
TookFatigue(g, h, q) ==
    /\ g.deck[q] = <<>>
    /\ h.deck[q] = <<>>
    /\ h.hand[q] = g.hand[q]
    /\ h.empty_card[q] = g.empty_card[q] + 1
    /\ h.health[q] = Max(0, g.health[q] - h.empty_card[q])

\* C1: play, attack and endturn check the game state before anything else:
\* before start() they fail with GameNotStarted, after start with the id of
\* a player who is not the current player they fail with InvalidPlayerTurn,
\* and in both cases the game is unchanged.
C1_GateFirst ==
    [][last'.op \in {"play", "attack", "endturn"} =>
         /\ ~game.started => (last'.err = "GameNotStarted" /\ game' = game)
         /\ (game.started /\ last'.pid # PlayerId(Cur)) =>
                (last'.err = "InvalidPlayerTurn" /\ game' = game)]_vars

C1_Witness ==
    /\ game.started
    /\ last.op = "attack" /\ last.err = "InvalidPlayerTurn"
    /\ PlayedCards(game, PlayerOf(last.pid)) # {}

\* C2 as stated: the first start() sets started, brings the game to turn 1
\* with players[0] current, gives players[0] one mana and one drawn card and
\* leaves players[1] untouched; a later start() changes nothing.
C2_StartDrawsCard ==
    [][last'.op = "start" =>
         IF game.started THEN game' = game
         ELSE /\ game'.started /\ game'.turn = 1 /\ CurrentPlayer(game') = 0
              /\ game'.current_mana[0] = 1 /\ game'.used_mana[0] = 0
              /\ DrewCard(game, game', 0)
              /\ Untouched(game, game', 1)]_vars

\* C2 amended: as C2, but players[0] draws one card only when their deck has
\* a card left; from an empty deck they draw nothing and take the first
\* fatigue damage.
C2_StartIdempotent ==
    [][last'.op = "start" =>
         IF game.started THEN game' = game
         ELSE /\ game'.started /\ game'.turn = 1 /\ CurrentPlayer(game') = 0
              /\ game'.current_mana[0] = 1 /\ game'.used_mana[0] = 0
              /\ game'.graveyard[0] = <<>> /\ game'.player_cards[0] = {}
              /\ DrewCard(game, game', 0) \/ TookFatigue(game, game', 0)
              /\ Untouched(game, game', 1)
              /\ game'.board_cards = game.board_cards]_vars

C2_Witness ==
    /\ last.op = "start" /\ game.started /\ game.turn >= 2
    /\ game.empty_card[0] >= 1

\* C3: a successful endturn increases turn by exactly 1 and hands the turn to
\* the other player, current_player being players[(turn - 1) mod 2] and
\* next_player players[turn mod 2]; play and attack change neither.
C3_TurnsAlternate ==
    [][/\ (last'.op = "endturn" /\ last'.err = "ok") =>
              /\ game.started
              /\ Turn(game') = Turn(game) + 1
              /\ CurrentPlayer(game') = NextPlayer(game)
              /\ CurrentPlayer(game') = Other(Cur)
              /\ NextPlayer(game') = Cur
              /\ CurrentPlayer(game') = (game'.turn - 1) % 2
              /\ NextPlayer(game') = game'.turn % 2
       /\ last'.op \in {"play", "attack"} =>
              /\ game'.turn = game.turn
              /\ game'.started = game.started
              /\ CurrentPlayer(game') = Cur]_vars

C3_Witness ==
    /\ last.op = "endturn" /\ last.err = "ok"
    /\ game.turn = 3 /\ CurrentPlayer(game) = 0

\* C4: a successful endturn changes the incoming player only: their
\* current_mana becomes min(current_mana + 1, 10), their used_mana 0, every
\* unit they control can attack, and they draw one card or take the fatigue
\* of an empty deck; the outgoing player and every unit's health and damage
\* are unchanged.
C4_EndturnResetsIncoming ==
    [][(last'.op = "endturn" /\ last'.err = "ok") =>
         LET q == CurrentPlayer(game')
         IN  /\ q = Other(Cur)
             /\ game'.current_mana[q] = Min(game.current_mana[q] + 1, MAX_MANA_LEVEL)
             /\ game'.used_mana[q] = 0
             /\ \A c \in game'.player_cards[q] : game'.card[c].can_attack
             /\ DrewCard(game, game', q) \/ TookFatigue(game, game', q)
             /\ game'.graveyard[q] = game.graveyard[q]
             /\ game'.player_cards = game.player_cards
             /\ game'.board_cards = game.board_cards
             /\ \A c \in DOMAIN game.card :
                    /\ game'.card[c].health = game.card[c].health
                    /\ game'.card[c].damage = game.card[c].damage
                    /\ c \notin game.player_cards[q] =>
                           game'.card[c] = game.card[c]
             /\ Untouched(game, game', Cur)]_vars

C4_Witness ==
    /\ last.op = "endturn" /\ last.err = "ok"
    /\ game.used_mana[Other(Cur)] > 0
    /\ \E c \in game.player_cards[Cur] :
           game.card[c].can_attack /\ Catalog[c].ability # "charge"

\* C5: in every reachable state 0 <= used_mana <= current_mana <= 10 for
\* each player, so the effective mana is within 0..10.
C5_ManaBounds ==
    \A p \in Players :
        /\ 0 <= game.used_mana[p]
        /\ game.used_mana[p] <= game.current_mana[p]
        /\ game.current_mana[p] <= MAX_MANA_LEVEL
        /\ Mana(game, p) \in 0..MAX_MANA_LEVEL

C5_Witness ==
    /\ game.turn > 2 * MAX_MANA_LEVEL
    /\ game.current_mana[0] = MAX_MANA_LEVEL
    /\ game.used_mana[0] = MAX_MANA_LEVEL

\* C6: in every reachable state each player controls at most 7 units; a play
\* of a unit that gets as far as the board is rejected with TooManyCards
\* exactly when the player controls 7 units, and leaves the game unchanged
\* then; otherwise Board.play_card adds the unit to that player's units.
C6_BoardCap ==
    /\ \A p \in Players : Cardinality(game.player_cards[p]) <= MAX_CARDS_PER_PLAYER
    /\ \A call \in PlayCalls :
           LET r == PlayOutcome(call)
               c == call[2]
               full == Cardinality(game.player_cards[Cur]) = MAX_CARDS_PER_PLAYER
               onboard == /\ CheckState(game, call[1]) = "ok"
                          /\ c \in game.hand[Cur]
                          /\ Catalog[c].cost <= Mana(game, Cur)
                          /\ Catalog[c].kind = "minion"
                          /\ Catalog[c].can_target \/ call[3] = None
           IN  /\ r.err = "TooManyCards" <=> (onboard /\ full)
               /\ r.err = "TooManyCards" => r.g = game
               /\ (onboard /\ ~full) =>
                      \/ c \in r.g.player_cards[Cur] /\ c \in r.g.board_cards
                      \/ r.g.card[c].health = 0

C6_Witness ==
    /\ last.op = "play" /\ last.err = "TooManyCards"
    /\ Cardinality(game.player_cards[Cur]) = MAX_CARDS_PER_PLAYER


\* The number of cards player q has been asked to draw by the start of turn
\* t (one at the start of each of their turns), and the number of cards their
\* deck held after the starting hands were dealt.
DrawsBy(q, t) == IF q = 0 THEN (t + 1) \div 2 ELSE t \div 2
Undealt(q) == Len(game.all_cards[q]) - NUMBERS_OF_START_CARDS[q + 1]

\* C7: the n-th time a player is asked to draw from their empty deck they
\* lose n health: the health drops by n, or to 0 with DeadPlayer when it was
\* n or less; a draw from a deck that has a card costs no health.
C7_FatigueSchedule ==
    [][(last'.op \in {"start", "endturn"} /\ game'.turn # game.turn) =>
         LET q == CurrentPlayer(game')
             n == DrawsBy(q, game'.turn) - Undealt(q)
         IN  /\ n >= 1 <=> game.deck[q] = <<>>
             /\ n < 1 => game'.health[q] = game.health[q] /\ last'.err = "ok"
             /\ (n >= 1 /\ game.health[q] > n) =>
                    game'.health[q] = game.health[q] - n /\ last'.err = "ok"
             /\ (n >= 1 /\ game.health[q] <= n) =>
                    /\ game'.health[q] = 0
                    /\ last'.err = "DeadPlayer" /\ last'.who = PlayerId(q)]_vars

C7_Witness ==
    /\ last.op = "endturn" /\ last.err = "ok"
    /\ game.deck[Cur] = <<>> /\ game.empty_card[Cur] = 3
    /\ game.health[Cur] = HEALTH_LEVEL - 6

\* C8: every player's health is within 0..20; a step sets a player's health
\* to 0 exactly when it raises DeadPlayer carrying that player, and a health
\* of 0 stays 0.
C8_HealthLatch ==
    /\ [](\A p \in Players : game.health[p] \in 0..HEALTH_LEVEL)
    /\ [][/\ \A p \in Players : game.health[p] = 0 => game'.health[p] = 0
          /\ \A p \in Players : game'.health[p] <= game.health[p]
          /\ last'.err = "DeadPlayer" =>
                 /\ last'.who \in PlayerIds
                 /\ game'.health[PlayerOf(last'.who)] = 0
          /\ \A p \in Players :
                 (game'.health[p] = 0 /\ game.health[p] > 0) =>
                     (last'.err = "DeadPlayer" /\ last'.who = PlayerId(p))]_vars

C8_Witness ==
    /\ last.op = "attack" /\ last.err = "DeadPlayer"
    /\ last.who = PlayerId(Other(Cur))
    /\ game.health[Other(Cur)] = 0
    /\ game.empty_card[Other(Cur)] >= 2

\* C9 as stated: a successful play adds the card's cost to the player's
\* used_mana, removes the card from the hand and appends it to the graveyard,
\* a unit is then among the player's units on the board, and no card of a
\* graveyard is in its player's hand.
C9_PlayedUnitOnBoard ==
    /\ [](\A p \in Players : Range(game.graveyard[p]) \cap game.hand[p] = {})
    /\ [][(last'.op = "play" /\ last'.err = "ok") =>
            \E c \in game.hand[Cur] :
                /\ game'.used_mana[Cur] = game.used_mana[Cur] + Catalog[c].cost
                /\ game'.hand[Cur] = game.hand[Cur] \ {c}
                /\ game'.graveyard[Cur] = Append(game.graveyard[Cur], c)
                /\ Catalog[c].kind = "minion" =>
                       (c \in game'.player_cards[Cur] /\ c \in game'.board_cards)]_vars

\* C9 amended: as C9, but a unit is among the player's units on the board
\* unless it died (its health reached 0) in the combat its own ability
\* started when it was played, and is then on no side of the board.
C9_PlayMovesCard ==
    /\ [](\A p \in Players : Range(game.graveyard[p]) \cap game.hand[p] = {})
    /\ [][(last'.op = "play" /\ last'.err = "ok") =>
            \E c \in game.hand[Cur] :
                /\ game'.used_mana[Cur] = game.used_mana[Cur] + Catalog[c].cost
                /\ game'.current_mana = game.current_mana
                /\ game'.hand[Cur] = game.hand[Cur] \ {c}
                /\ game'.graveyard[Cur] = Append(game.graveyard[Cur], c)
                /\ game'.hand[Other(Cur)] = game.hand[Other(Cur)]
                /\ game'.used_mana[Other(Cur)] = game.used_mana[Other(Cur)]
                /\ game'.graveyard[Other(Cur)] = game.graveyard[Other(Cur)]
                /\ Catalog[c].kind = "minion" =>
                       \/ c \in game'.player_cards[Cur] /\ c \in game'.board_cards
                       \/ /\ Catalog[c].ability = "deal_damage"
                          /\ game'.card[c].health = 0
                          /\ c \notin game'.board_cards
                          /\ \A p \in Players : c \notin game'.player_cards[p]
                /\ Catalog[c].kind = "spell" => c \notin game'.board_cards]_vars

C9_Witness ==
    /\ last.op = "play" /\ last.err = "ok"
    /\ \E c \in Range(game.graveyard[Cur]) :
           /\ Catalog[c].kind = "minion"
           /\ c \notin game.board_cards
           /\ game.card[c].health = 0
           /\ game.used_mana[Cur] = Catalog[c].cost

\* C10: a play by the current player of a card that is not in their hand
\* fails with MissingCard; of a card in their hand that costs more than
\* their effective mana, with NotEnoughMana; both leave the game unchanged.
C10_MissingCardThenMana ==
    \A call \in PlayCalls :
        LET r == PlayOutcome(call)
            c == call[2]
        IN  CheckState(game, call[1]) = "ok" =>
                /\ c \notin game.hand[Cur] => r = Out(game, "MissingCard")
                /\ (c \in game.hand[Cur] /\ Catalog[c].cost > Mana(game, Cur)) =>
                       r = Out(game, "NotEnoughMana")
                /\ (c \in game.hand[Cur] /\ Catalog[c].cost <= Mana(game, Cur)) =>
                       r.err # "NotEnoughMana"

C10_Witness ==
    /\ last.op = "play" /\ last.err = "MissingCard"
    /\ game.started /\ last.pid = PlayerId(Cur)
    /\ \E c \in Setup.cards \ game.hand[Cur] : Catalog[c].cost > Mana(game, Cur)
    /\ \E c \in Setup.cards \cap game.hand[Cur] : Catalog[c].cost > Mana(game, Cur)


\* The calls of attack the callers make in a state, as the Attack action
\* draws them, and their outcomes.
AttackCalls == PlayerIds \X Setup.units \X VictimIds
AttackOutcome(call) == GameAttack(game, call[1], call[2], call[3])

\* The victims an attack can reach: the units on the board and the heroes.
Attackable(g) == g.board_cards \cup PlayerIds

\* C11: a play, attack or endturn that is rejected with an error of the
\* InvalidAction family leaves the whole game as it was before the call.
C11_RejectedUnchanged ==
    [][(last'.op \in {"play", "attack", "endturn"}
            /\ last'.err \in InvalidActionErrors) => game' = game]_vars

\* C12: a successful attack by unit A on an enemy unit V leaves A unable to
\* attack, V with its health less A's damage and A with its health less V's
\* damage, both clamped at 0 and both from the damages before the attack; on
\* a hero, the hero loses A's damage (down to 0, with DeadPlayer) and A's
\* health is unchanged.
C12_AttackDamage ==
    \A call \in AttackCalls :
        LET r == AttackOutcome(call)
            a == call[2]
            v == call[3]
        IN  /\ (r.err = "ok" /\ v \in EnemyCards(game, Cur)) =>
                   /\ ~r.g.card[a].can_attack
                   /\ r.g.card[v].health =
                          Max(0, game.card[v].health - game.card[a].damage)
                   /\ r.g.card[a].health =
                          Max(0, game.card[a].health - game.card[v].damage)
                   /\ r.g.card[a].damage = game.card[a].damage
                   /\ r.g.card[v].damage = game.card[v].damage
                   /\ r.g.health = game.health
                   /\ \A c \in DOMAIN game.card \ {a, v} : r.g.card[c] = game.card[c]
            /\ (r.err \in {"ok", "DeadPlayer"} /\ v \in PlayerIds) =>
                   /\ ~r.g.card[a].can_attack
                   /\ r.g.health[PlayerOf(v)] =
                          Max(0, game.health[PlayerOf(v)] - game.card[a].damage)
                   /\ r.err = "ok" <=> game.health[PlayerOf(v)] > game.card[a].damage
                   /\ r.g.health[Other(PlayerOf(v))] = game.health[Other(PlayerOf(v))]
                   /\ r.g.card[a].health = game.card[a].health
                   /\ \A c \in DOMAIN game.card \ {a} : r.g.card[c] = game.card[c]

C12_Witness ==
    /\ last.op = "attack" /\ last.err = "ok"
    /\ \E a \in game.player_cards[Cur], v \in game.player_cards[Other(Cur)] :
           /\ ~game.card[a].can_attack
           /\ game.card[a].health = Catalog[a].health - game.card[v].damage
           /\ game.card[v].health = Catalog[v].health - game.card[a].damage
           /\ game.card[a].damage > 0 /\ game.card[v].damage > 0

\* C13: every unit on the board has a health of 1 or more: a unit whose
\* health reaches 0 in an attack or by a damage ability is removed from the
\* board by the operation that brought it there.
C13_LiveUnits ==
    /\ \A c \in game.board_cards : game.card[c].health >= 1
    /\ \A p \in Players : \A c \in game.player_cards[p] : game.card[c].health >= 1

\* C14: a unit without Charge that enters the board cannot attack before its
\* owner's next turn starts (an attack on a unit of the board or on a hero
\* fails with CardCannotAttack, and no play or attack makes it able to
\* attack); a unit with Charge can attack an enemy unit or the enemy hero
\* as soon as it is played.
C14_ChargeOnly ==
    [][last'.op \in {"play", "attack"} =>
         /\ \A c \in game'.board_cards \ game.board_cards :
                IF Catalog[c].ability = "charge"
                THEN \A v \in EnemyCards(game', Cur) \cup {PlayerId(Other(Cur))} :
                         GameAttack(game', PlayerId(Cur), c, v).err \in {"ok", "DeadPlayer"}
                ELSE \A v \in Attackable(game') :
                         GameAttack(game', PlayerId(Cur), c, v).err = "CardCannotAttack"
         /\ \A c \in game'.board_cards \cap game.board_cards :
                ~game.card[c].can_attack => ~game'.card[c].can_attack]_vars

\* C15: a unit attacks at most once between two starts of its owner's turns:
\* a successful attack leaves the attacker unable to attack, an attack by a
\* unit that is unable to attack fails with CardCannotAttack and changes
\* nothing, and only the endturn that starts its owner's turn makes a unit
\* of the board able to attack again.
C15_OneAttackPerTurn ==
    /\ [](\A call \in AttackCalls :
             LET r == AttackOutcome(call)
                 a == call[2]
             IN  (/\ CheckState(game, call[1]) = "ok"
                  /\ a \in game.player_cards[Cur]
                  /\ call[3] \in Attackable(game)) =>
                     IF game.card[a].can_attack
                     THEN r.err \in {"ok", "DeadPlayer"} => ~r.g.card[a].can_attack
                     ELSE r = Out(game, "CardCannotAttack"))
    /\ [][\A c \in game'.board_cards \cap game.board_cards :
              (~game.card[c].can_attack /\ game'.card[c].can_attack) =>
                     /\ last'.op \in {"start", "endturn"}
                     /\ game'.turn = game.turn + 1
                     /\ c \in game'.player_cards[CurrentPlayer(game')]]_vars

\* C16: an attack by the current player fails with MissingCard, the game
\* unchanged, when the attacker is not one of that player's units on the
\* board (whether or not it could attack), and when the victim is neither a
\* unit on the board nor a player.
C16_MissingAttacker ==
    \A call \in AttackCalls :
        LET r == AttackOutcome(call)
        IN  CheckState(game, call[1]) = "ok" =>
                /\ call[2] \notin game.player_cards[Cur] => r = Out(game, "MissingCard")
                /\ call[3] \notin Attackable(game) => r = Out(game, "MissingCard")
                /\ (call[2] \in game.player_cards[Cur] /\ call[3] \in Attackable(game))
                       => r.err # "MissingCard"

C16_Witness ==
    /\ last.op = "attack" /\ last.err = "MissingCard"
    /\ game.started /\ last.pid = PlayerId(Cur)
    /\ \E c \in game.player_cards[Other(Cur)] : game.card[c].can_attack
    /\ \E c \in Setup.units \cap game.hand[Cur] :
           ~game.card[c].can_attack /\ c \notin game.board_cards


\* The legal actions of the current player in the state: the plays of a card
\* of the hand, on one of the player's units or on no target, that the engine
\* does not reject; the attacks by a unit of the player that can attack, on
\* an enemy unit or the enemy hero; and the end of the turn.
LegalPlays ==
    {n \in {PlayCartNode(PlayerId(Cur), c, t) :
                c \in game.hand[Cur], t \in game.player_cards[Cur] \cup {None}} :
        \A order \in IterationOrders(EnemyCards(game, Cur)) :
            NodeApply(game, n, order).err \notin InvalidActionErrors}
LegalAttacks ==
    {AttackNode(PlayerId(Cur), a, v) :
        a \in {c \in game.player_cards[Cur] : game.card[c].can_attack},
        v \in game.player_cards[Other(Cur)] \cup {PlayerId(Other(Cur))}}
LegalActions ==
    IF game.started
    THEN LegalPlays \cup LegalAttacks \cup {EndTurnNode(PlayerId(Cur))}
    ELSE {}

\* The actions yielded by the last call, without their terminal marks.
YieldedActions == {[yielded[i] EXCEPT !.is_terminal = FALSE] : i \in DOMAIN yielded}

\* C17: the methods of an action generator try every candidate on a copy of
\* the driving game, and the driving game (board, hands, mana, healths, turn
\* and all the rest) is the same after the enumeration as before.
C17_ClonesIndependent ==
    [][last'.op \in GeneratorMethods => game' = game]_vars

C17_Witness ==
    /\ last.op = "random_actions"
    /\ \E i, j \in DOMAIN yielded :
           /\ yielded[i].type = "PlayCartNode" /\ yielded[j].type = "AttackNode"
           /\ \A n \in {yielded[i], yielded[j]} :
                  NodeApply(Copy(game), n, <<>>).g # game

\* C18: every action a generator yields applies to a copy of the driving
\* game without an error of the InvalidAction family, and it is marked
\* terminal exactly when its application raises DeadPlayer.
C18_YieldedApplicable ==
    last.op \in GeneratorMethods =>
        \A i \in DOMAIN yielded :
            \A order \in IterationOrders(EnemyCards(game, Cur)) :
                LET r == NodeApply(Copy(game), yielded[i], order)
                IN  /\ r.err \notin InvalidActionErrors
                    /\ yielded[i].is_terminal <=> r.err = "DeadPlayer"

C18_Witness ==
    /\ last.op = "random_actions"
    /\ \E i, j \in DOMAIN yielded : yielded[i].is_terminal /\ ~yielded[j].is_terminal
    /\ \E c \in game.hand[Cur] : \A i \in DOMAIN yielded : yielded[i].card # c
    /\ \E c \in game.player_cards[Cur] : \A i \in DOMAIN yielded : yielded[i].card # c

\* C19: random_actions yields each legal action of the current player once
\* and nothing else, as many actions as there are legal plays and legal
\* attacks, plus one for the end of the turn; it yields nothing for a game
\* that has not started.
C19_RandomActionsLegal ==
    last.op = "random_actions" =>
        /\ YieldedActions = LegalActions
        /\ Len(yielded) = Cardinality(LegalActions)
        /\ game.started =>
               Len(yielded) = Cardinality(LegalPlays) + Cardinality(LegalAttacks) + 1
        /\ ~game.started => yielded = <<>>

C19_Witness ==
    /\ last.op = "random_actions"
    /\ Cardinality(LegalPlays) >= 2 /\ Cardinality(LegalAttacks) >= 2
    /\ Len(yielded) >= 5
    /\ Cardinality(game.hand[Cur]) > Cardinality({n.card : n \in LegalPlays})

\* C20: iterating a generator that does not apply its actions yields all the
\* legal actions of the driving game, also when some of them are terminal.
C20_IterYieldsAll ==
    last.op = "__iter__" => YieldedActions = LegalActions

\* The play reaches the card: the game is started, the caller is the current
\* player, the card is in their hand and they can pay for it.
ReachesCard(call) ==
    /\ CheckState(game, call[1]) = "ok"
    /\ call[2] \in game.hand[Cur]
    /\ Catalog[call[2]].cost <= Mana(game, Cur)

\* The abilities that consume no target.
TakesNoTarget(c) ==
    \/ Catalog[c].ability \in {"none", "charge", "inc_damage", "inc_health"}
    \/ Catalog[c].ability = "deal_damage" /\ ~Catalog[c].can_target

\* C25: a card whose ability consumes no target is rejected with
\* InvalidTarget when it is played with a target; a SetUnitStats card is
\* rejected with TargetNotDefined when it is played without one, and played
\* on a friendly unit it sets that unit's health and damage to its value and
\* leaves the other units as they are.
C25_TargetDiscipline ==
    \A call \in PlayCalls :
        ReachesCard(call) =>
            LET r == PlayOutcome(call)
                c == call[2]
                t == call[3]
            IN  /\ (TakesNoTarget(c) /\ t # None) => r.err = "InvalidTarget"
                /\ (Catalog[c].ability = "set_stats" /\ t = None) =>
                       r.err = "TargetNotDefined"
                /\ (Catalog[c].ability = "set_stats" /\ t \in PlayedCards(game, Cur)) =>
                       /\ r.err = "ok"
                       /\ r.g.card[t].health = Catalog[c].val
                       /\ r.g.card[t].damage = Catalog[c].val
                       /\ \A u \in game.board_cards \ {t} : r.g.card[u] = game.card[u]

\* The play reaches the ability of the card: a minion finds room on the
\* board, and the card was not played before.
ReachesAbility(call) ==
    /\ ReachesCard(call)
    /\ ~game.card[call[2]].was_played
    /\ Catalog[call[2]].kind = "minion" =>
           Cardinality(PlayedCards(game, Cur)) < MAX_CARDS_PER_PLAYER

\* From g to h unit u took v damage, and left the board if that killed it.
Damaged(g, h, u, v) ==
    /\ h.card[u].health = Max(0, g.card[u].health - v)
    /\ u \in h.board_cards <=> h.card[u].health > 0

\* C26: a DealDamage(v) card that can target, played on an enemy unit,
\* damages that unit by v and no other enemy unit; played on a friendly unit
\* it fails with InvalidTarget; a DealDamage(v) card that cannot target
\* damages every enemy unit by v; the units brought to health 0 leave the
\* board, and a spell takes no damage back.
C26_DealDamage ==
    \A call \in PlayCalls :
        (ReachesAbility(call) /\ Catalog[call[2]].ability = "deal_damage") =>
            LET r == PlayOutcome(call)
                c == call[2]
                t == call[3]
                v == Catalog[c].val
                enemies == EnemyCards(game, Cur)
                friends == PlayedCards(game, Cur) \cup
                               (IF Catalog[c].kind = "minion" THEN {c} ELSE {})
            IN  /\ (Catalog[c].can_target /\ t \in enemies) =>
                       /\ r.err = "ok"
                       /\ Damaged(game, r.g, t, v)
                       /\ \A u \in enemies \ {t} :
                              r.g.card[u] = game.card[u] /\ u \in r.g.board_cards
                /\ (Catalog[c].can_target /\ t \in friends) => r.err = "InvalidTarget"
                /\ (~Catalog[c].can_target /\ t = None) =>
                       /\ r.err = "ok"
                       /\ \A u \in enemies : Damaged(game, r.g, u, v)
                /\ Catalog[c].kind = "spell" =>
                       /\ r.g.card[c].health = game.card[c].health
                       /\ r.g.health = game.health

\* The plays of a DealDamage card that can target, on a target that is no
\* card of the board when the ability runs.
MissingTargetCalls ==
    {call \in PlayCalls :
        /\ ReachesAbility(call)
        /\ Catalog[call[2]].ability = "deal_damage" /\ Catalog[call[2]].can_target
        /\ call[3] \notin game.board_cards
        /\ Catalog[call[2]].kind = "minion" => call[3] # call[2]}

DealLaw(carried(_, _)) ==
    \A p \in Players, n \in 1..MaxDeal :
        LET k == Len(game.deck[p])
            r == DeckDeal(game, p, n)
            t == TakeCards(game, p, n)
        IN  IF k < n
            THEN /\ r.err = "EmptyDeck"
                 /\ r.g.empty_card[p] = game.empty_card[p] + (n - k)
                 /\ r.deal_attempt = carried(n - k, p)
                 /\ t.g.health[p] = Max(0, game.health[p] - r.deal_attempt)
                 /\ t.err = IF game.health[p] - r.deal_attempt <= 0
                            THEN "DeadPlayer" ELSE "ok"
                 /\ t.g.hand = game.hand
            ELSE /\ r.err = "ok"
                 /\ r.cards = SubSeq(game.deck[p], 1, n)
                 /\ r.g.deck[p] = SubSeq(game.deck[p], n + 1, k)
                 /\ r.g.empty_card = game.empty_card
                 /\ t.err = "ok"
                 /\ t.g.hand[p] = game.hand[p] \cup Range(SubSeq(game.deck[p], 1, n))
                 /\ t.g.health = game.health

CallShortfall(d, p) == d
CumulativeShortfall(d, p) == game.empty_card[p] + d

EmptyDrawsGrow == [][\A p \in Players : game'.empty_card[p] >= game.empty_card[p]]_vars

\* C28 as stated: Deck.deal(n) on a deck of k < n cards adds n - k to
\* empty_draws and raises EmptyDeck carrying n - k, which take_cards subtracts
\* from the player's health; on a deck of k >= n cards it returns the first n
\* cards in order, removes them and leaves empty_draws unchanged; empty_draws
\* never decreases.
C28_CarriesShortfall == []DealLaw(CallShortfall) /\ EmptyDrawsGrow

\* C28, amended: the EmptyDeck that Deck.deal raises carries empty_draws as
\* it is after the addition of n - k, the sum of the shortfalls of all the
\* calls so far, and take_cards subtracts that sum from the player's health;
\* the rest as stated.
C28_CarriesEmptyDraws == []DealLaw(CumulativeShortfall) /\ EmptyDrawsGrow

C28_Witness ==
    /\ last.op = "endturn" /\ last.err = "ok"
    /\ game.empty_card[Cur] >= 2
    /\ game.health[Cur] = HEALTH_LEVEL - (game.empty_card[Cur] * (game.empty_card[Cur] + 1)) \div 2
    /\ Len(game.deck[Other(Cur)]) >= MaxDeal

\* The players whose set of ids on the board holds c.
Holders(c) == {p \in Players : c \in game.player_cards[p]}

\* C29: in every reachable state a unit's id is a key of the board's map of
\* units exactly when it is in the set of ids of exactly one player: no unit
\* is on both sides, and no set holds the id of a unit missing from the map.
C29_BoardConsistent ==
    \A c \in DOMAIN game.card :
        /\ c \in game.board_cards <=> Cardinality(Holders(c)) = 1
        /\ Cardinality(Holders(c)) <= 1

C29_Witness ==
    /\ last.op = "play" /\ last.err = "MissingCard"
    /\ game.board_cards \cap game.hand[Cur] # {}
    /\ \E d \in Range(game.graveyard[Other(Cur)]) :
           d \notin game.board_cards /\ game.card[d].health = 0

\* A unit whose health the step brings to 0 is off the board after the step.
DeadLeaveBoard ==
    \A c \in DOMAIN game.card :
        (Catalog[c].kind = "minion" /\ game.card[c].health > 0
             /\ game'.card[c].health = 0) => c \notin game'.board_cards

\* C30 as stated: a successful play moves the card out of the hand, a unit
\* to the board and not to the graveyard, a spell to the graveyard and not to
\* the board; a unit that dies leaves the board, and no dead unit is in a
\* graveyard.
C30_BoardOrGraveyard ==
    /\ [](\A p \in Players : \A c \in Range(game.graveyard[p]) :
               Catalog[c].kind = "minion" => game.card[c].health > 0)
    /\ [][/\ DeadLeaveBoard
          /\ (last'.op = "play" /\ last'.err = "ok") =>
                 \E c \in game.hand[Cur] :
                     /\ game'.hand[Cur] = game.hand[Cur] \ {c}
                     /\ IF Catalog[c].kind = "minion"
                        THEN /\ c \in game'.board_cards
                             /\ c \notin Range(game'.graveyard[Cur])
                        ELSE /\ c \in Range(game'.graveyard[Cur])
                             /\ c \notin game'.board_cards]_vars

\* C30, amended: a successful play moves the card out of the hand and
\* appends it to its player's graveyard, spell or unit; a spell is not on the
\* board, a unit is, unless it died in the combat its own play started; a
\* unit that dies leaves the board, and nothing but a successful play changes
\* a graveyard, so that a dead unit stays in the graveyard its play put it in.
C30_Lifecycle ==
    [][/\ DeadLeaveBoard
       /\ IF last'.op = "play" /\ last'.err = "ok"
          THEN \E c \in game.hand[Cur] :
                   /\ game'.hand = [game.hand EXCEPT ![Cur] = @ \ {c}]
                   /\ game'.graveyard = [game.graveyard EXCEPT ![Cur] = Append(@, c)]
                   /\ IF Catalog[c].kind = "minion"
                      THEN c \in game'.board_cards \/ game'.card[c].health = 0
                      ELSE c \notin game'.board_cards
          ELSE game'.graveyard = game.graveyard]_vars

C30_Witness ==
    /\ last.op = "attack" /\ last.err = "ok"
    /\ \E c \in Range(game.graveyard[Other(Cur)]) :
           /\ Catalog[c].kind = "minion"
           /\ game.card[c].health = 0
           /\ c \notin game.board_cards
    /\ game.board_cards \cap Range(game.graveyard[Cur]) # {}


\* ------------------------------------------------------------------------
\* The planner: rollouts, expansion, rerooting, best action
\* ------------------------------------------------------------------------

\* C21: every rollout terminates with an action marked terminal whose
\* application raises DeadPlayer: the step of GameTree.default_policy that
\* ends the iteration of ActionGenerator(game, apply=True) ends it with
\* DeadPlayerError, raised by a terminal action.
C21_RolloutEndsDead ==
    [][rollout.pc = "rollout" /\ rollout'.pc = "idle"
           => rollout'.err = "DeadPlayer" /\ rollout'.action.is_terminal]_vars

\* The legal actions of game g as the generator made for player lists them:
\* every node that one of the generators of random_actions yields.
ListedActions(g, player) ==
    UNION {UNION {{a \in Range(draws) : a.type # "raise"} :
                     draws \in Draws(g, player, order)} :
           order \in Orders(g)}

\* C22: is_expandable is never false while a legal action of S is still
\* missing from the children: an expand that makes the root of the tree stop
\* being expandable leaves every legal action of the tree's game among the
\* root's children.
C22_ClosedOnlyWhenComplete ==
    [][/\ last'.op = "expand" /\ last'.err = "ok"
       /\ tree.nodes[<<>>].is_expandable
       /\ ~tree'.nodes[<<>>].is_expandable
       => \A a \in ListedActions(game, tree.player) : Contains(tree'.nodes, <<>>, a)]_vars

\* The root's children whose action equals the action given.
Matching(nodes, action) ==
    {q \in Range(Children(nodes, <<>>)) : NodeEq(nodes[q].action, action)}

\* C23: after play(A) the new root is the child of the previous root whose
\* action equals A, with its subtree and statistics, or, when the previous
\* root has no such child, a fresh initial node without children; it is
\* never a deeper descendant of the previous root.
C23_RerootOnChild ==
    [][last'.op = "tree_play"
           => IF Matching(tree.nodes, yielded'[1]) = {}
              THEN tree'.nodes = (<<>> :> Node(InitialGameNode))
              ELSE \E q \in Matching(tree.nodes, yielded'[1]) :
                       tree'.nodes = Subtree(tree.nodes, q)]_vars

\* C24: best_action, which run returns, is None exactly when the root has
\* no children; otherwise it is a child of the root whose wins are at least
\* the wins of every other child of the root.
C24_BestAction ==
    LET children == Range(Children(tree.nodes, <<>>))
        best == BestAction(tree.nodes)
    IN  /\ best = <<None>> <=> children = {}
        /\ best # <<None>>
               => /\ best \in children
                  /\ \A q \in children :
                         ~RatLess(tree.nodes[best].wins, tree.nodes[q].wins)
        /\ last.op = "run" /\ last.err = "ok"
               => yielded = IF best = <<None>> THEN <<>> ELSE <<tree.nodes[best].action>>

\* A run has returned the one of the root's two children that has more wins
\* than the child added first.
C24_Witness ==
    /\ last.op = "run" /\ last.err = "ok"
    /\ Len(Children(tree.nodes, <<>>)) = 2
    /\ RatLess(tree.nodes[<<1>>].wins, tree.nodes[<<2>>].wins)
    /\ yielded = <<tree.nodes[<<2>>].action>>

\* ------------------------------------------------------------------------
\* The planner: hidden hands, rewards, backup, frames
\* ------------------------------------------------------------------------

\* A play node that a generator made for player yields on the game g is as
\* the hidden-hand rule has it.
PlayFits(g, a, player) ==
    LET p == CurrentPlayer(g)
    IN  a.type \in PlayNodes
            => IF p = player
               THEN a.type = "PlayCartNode" /\ a.card \in g.hand[p]
               ELSE /\ a.type = "NonDeterministicPlayCartNode"
                    /\ a.card \in AvailableCards(g)
                    /\ a.chance[1] * Cardinality(AvailableCards(g))
                           = Cardinality(g.hand[p]) * a.chance[2]

\* The nodes that the step added to the tree.
NewNodes == DOMAIN tree'.nodes \ DOMAIN tree.nodes

\* The path of the parent of the node with the path q.
Parent(q) == SubSeq(q, 1, Len(q) - 1)

\* C31: when the game's current player is the generator's player, every
\* play action yielded is a PlayCartNode of a card in that player's hand;
\* otherwise it is a NonDeterministicPlayCartNode whose card is in the
\* current player's deck list and neither on the board nor in the graveyard,
\* with chance = |hand| / |unknown|.  Checked on every action a rollout
\* yields and on every node an expansion adds.
C31_HiddenHand ==
    [][/\ last'.op = "__iter__" => PlayFits(rollout.game, yielded'[1], tree.player)
       /\ last'.op \in {"expand", "tree_policy", "run"}
              => \A q \in NewNodes : \A order \in Orders(game) :
                     PlayFits(ReplyGame(tree.nodes, game, Parent(q), order).g,
                              tree'.nodes[q].action, tree.player)]_vars

\* A rollout has yielded the play of a card that the hand of the searching
\* player's enemy does not hold, one of two unknown cards of which the hand
\* holds one, and an expansion has added the play of a card of the
\* searching player's hand.
C31_Witness ==
    /\ last.op = "__iter__"
    /\ yielded[1].type = "NonDeterministicPlayCartNode"
    /\ yielded[1].chance = <<1, 2>>
    /\ ~yielded[1].in_hand
    /\ \E q \in DOMAIN tree.nodes : tree.nodes[q].action.type = "PlayCartNode"

\* The chance of the node is defined and in (0, 1].
ChanceInRange(a) ==
    a.type = "NonDeterministicPlayCartNode" => 0 < a.chance[1] /\ a.chance[1] <= a.chance[2]

\* C32: every NonDeterministicPlayCartNode created has a chance with
\* 0 < chance <= 1: no request for the hidden-hand play actions divides by
\* an empty set of unknown cards, and every such node that a rollout has
\* yielded or that is in the tree has a chance in that range.
C32_ChanceInRange ==
    /\ last.err # "ZeroDivisionError"
    /\ \A i \in DOMAIN yielded : ChanceInRange(yielded[i])
    /\ \A q \in DOMAIN tree.nodes : ChanceInRange(tree.nodes[q].action)

\* C33: default_policy(node) always returns a reward, +1 when the player
\* killed at the end of the rollout is not the searching player and -1 when
\* it is: the step that ends a rollout raises nothing out of run, names the
\* player killed, and the node selected takes the visit of the backup, with
\* a loss when the searching player was killed and a win otherwise.
C33_RewardReturned ==
    [][rollout.pc = "rollout" /\ rollout'.pc = "idle"
           => /\ last'.err = "ok"
              /\ last'.who \in PlayerIds
              /\ tree'.nodes[rollout.node].visits = tree.nodes[rollout.node].visits + 1
              /\ IF last'.who = PlayerId(tree.player)
                 THEN RatLess(tree.nodes[rollout.node].losses,
                              tree'.nodes[rollout.node].losses)
                 ELSE RatLess(tree.nodes[rollout.node].wins,
                              tree'.nodes[rollout.node].wins)]_vars

\* The step is a backup: run has ended an iteration with a reward.
BackedUp == last'.op = "run" /\ last'.err = "ok"

\* The statistics of a node before the step, a node the step added having
\* those of Node.__init__.
Before(q) == IF q \in DOMAIN tree.nodes THEN tree.nodes[q] ELSE Node(tree'.nodes[q].action)

\* What the step added to the wins and to the losses of a node.
Won(q) == RatAdd(tree'.nodes[q].wins, Rat(-Before(q).wins.n, Before(q).wins.d))
Lost(q) == RatAdd(tree'.nodes[q].losses, Rat(-Before(q).losses.n, Before(q).losses.d))

\* The reward that reaches a node on the path of the backup: the reward of
\* default_policy at the node selected, and above it what the child on the
\* path has accumulated, with its sign.
Received(q) ==
    IF q = rollout'.node
    THEN IF last'.who = PlayerId(tree.player) THEN Rat(-1, 1) ELSE Rat(1, 1)
    ELSE LET child == SubSeq(rollout'.node, 1, Len(q) + 1)
         IN  RatAdd(Won(child), Rat(-Lost(child).n, Lost(child).d))

\* C34: one backup from the node selected adds 1 to the visits of that node
\* and of each of its ancestors up to the root, adds the reward a node
\* receives to its wins when it is positive and the absolute value to its
\* losses otherwise, and leaves the visits, wins and losses of every node
\* off that path as they were.
C34_BackupFrame ==
    [][BackedUp
           => \A q \in DOMAIN tree'.nodes :
                  IF IsPrefix(q, rollout'.node)
                  THEN /\ tree'.nodes[q].visits = Before(q).visits + 1
                       /\ tree'.nodes[q].action.type # "NonDeterministicPlayCartNode"
                              => IF Received(q).n > 0
                                 THEN Won(q) = Received(q) /\ Lost(q) = Zero
                                 ELSE /\ Won(q) = Zero
                                      /\ Lost(q) = Rat(Abs(Received(q).n), Received(q).d)
                  ELSE /\ tree'.nodes[q].visits = Before(q).visits
                       /\ tree'.nodes[q].wins = Before(q).wins
                       /\ tree'.nodes[q].losses = Before(q).losses]_vars

\* A backup has gone from a child of the root to the root, which has another
\* child that it left alone.
C34_Witness ==
    /\ last.op = "run" /\ last.err = "ok"
    /\ Len(rollout.node) = 1
    /\ Len(Children(tree.nodes, <<>>)) = 2
    /\ tree.nodes[<<>>].visits = 2
    /\ tree.nodes[rollout.node].visits = 1

\* The chance of a node, 1 for a node that is no NonDeterministicPlayCartNode.
ChanceOf(a) ==
    IF a.type = "NonDeterministicPlayCartNode" THEN Rat(a.chance[1], a.chance[2])
    ELSE Rat(1, 1)

\* The product of the chances of the nodes from the node with the path q
\* down to the node with the path `path`, both included.
RECURSIVE ChanceProduct(_, _, _)
ChanceProduct(nodes, q, path) ==
    IF Len(path) < Len(q) THEN Rat(1, 1)
    ELSE RatMul(ChanceOf(nodes[path].action),
                IF path = <<>> THEN Rat(1, 1)
                ELSE ChanceProduct(nodes, q, SubSeq(path, 1, Len(path) - 1)))

\* C35: in a backup a NonDeterministicPlayCartNode with chance c accumulates
\* the reward it receives multiplied by c and passes the scaled reward to its
\* parent, so that every node on the path accumulates the reward of
\* default_policy multiplied by the chances of the
\* NonDeterministicPlayCartNodes from it down to the node selected.
C35_ChanceScaling ==
    [][BackedUp
           => \A q \in DOMAIN tree'.nodes :
                  IsPrefix(q, rollout'.node)
                      => /\ RatAdd(Won(q), Rat(-Lost(q).n, Lost(q).d))
                               = RatMul(Received(rollout'.node),
                                        ChanceProduct(tree'.nodes, q, rollout'.node))
                         /\ tree'.nodes[q].action.type = "NonDeterministicPlayCartNode"
                                => RatAdd(Won(q), Rat(-Lost(q).n, Lost(q).d))
                                       = RatMul(Received(q), ChanceOf(tree'.nodes[q].action))]_vars

\* A backup from a NonDeterministicPlayCartNode with chance 1/2, a child of
\* the root, has given the node and the root half a loss each.
C35_Witness ==
    /\ last.op = "run" /\ last.err = "ok"
    /\ Len(rollout.node) = 1
    /\ tree.nodes[rollout.node].action.type = "NonDeterministicPlayCartNode"
    /\ tree.nodes[rollout.node].action.chance = <<1, 2>>
    /\ tree.nodes[rollout.node].losses = Rat(1, 2)
    /\ tree.nodes[<<>>].losses = Rat(1, 2)
    /\ tree.nodes[<<>>].visits = 1

\* C36: run never changes the game of the tree (replay, validation and
\* rollout work on copies), nor does expand; the searching player fixed at
\* construction never changes; play(action) changes the game by applying
\* exactly that action to it.
C36_RunLeavesGame ==
    [][/\ last'.op \in {"expand", "tree_policy", "__iter__", "run"} => game' = game
       /\ tree'.player = tree.player
       /\ last'.op = "tree_play"
              => \E order \in Orders(game) :
                     game' = NodeApply(game, yielded'[1], order).g]_vars

\* A rollout from a node below the root is under way on a game whose hands
\* are no longer those of the game of the tree, which a play has taken to the
\* second player's turn.
C36_Witness ==
    /\ rollout.pc = "rollout"
    /\ last.op = "__iter__"
    /\ Len(rollout.node) >= 1
    /\ rollout.game.hand # game.hand
    /\ Turn(game) = TreeSetup.turns + 1

\* ------------------------------------------------------------------------
\* The engine: sides of an attack, conservation of cards
\* ------------------------------------------------------------------------

\* C37: Game.attack only ever damages the opposing side: an attack by the
\* player whose turn it is on a unit that player controls, the attacking
\* unit itself included, or on that player's own hero is rejected with an
\* error of the InvalidAction family.
C37_OwnSideRejected ==
    \A call \in AttackCalls :
        (/\ game.started
         /\ call[1] = PlayerId(Cur)
         /\ call[3] \in game.player_cards[Cur] \cup {PlayerId(Cur)})
            => AttackOutcome(call).err \in InvalidActionErrors

\* The undealt deck, the hand and the graveyard of each player of g are
\* pairwise disjoint, hold no card twice and together hold exactly the cards
\* of the player's deck list.
Conserved(g) ==
    \A p \in Players :
        /\ Range(g.deck[p]) \cap g.hand[p] = {}
        /\ Range(g.deck[p]) \cap Range(g.graveyard[p]) = {}
        /\ g.hand[p] \cap Range(g.graveyard[p]) = {}
        /\ Range(g.deck[p]) \cup g.hand[p] \cup Range(g.graveyard[p]) = Range(g.all_cards[p])
        /\ Len(g.deck[p]) = Cardinality(Range(g.deck[p]))
        /\ Len(g.graveyard[p]) = Cardinality(Range(g.graveyard[p]))

\* C38: card conservation: in the game of the tree and in the game of a
\* rollout, which engine operations and the application of
\* NonDeterministicPlayCartNodes produce, the undealt deck, the hand and the
\* graveyard of each player partition the player's deck list; and a rollout
\* step that applies such a node whose card is not in the hand takes that
\* card out of the undealt deck and, the play done, leaves it in the
\* graveyard and the hand as it was.
C38_Conservation ==
    /\ [](Conserved(game) /\ (rollout.pc = "rollout" => Conserved(rollout.game)))
    /\ [][(/\ last'.op = "__iter__"
            /\ yielded'[1].type = "NonDeterministicPlayCartNode"
            /\ yielded'[1].card \notin rollout.game.hand[PlayerOf(yielded'[1].player)])
              => LET p == PlayerOf(yielded'[1].player)
                     card == yielded'[1].card
                 IN  /\ card \in Range(rollout.game.deck[p])
                     /\ rollout'.game.deck[p]
                            = SelectSeq(rollout.game.deck[p], LAMBDA c : c # card)
                     /\ rollout'.game.hand[p] = rollout.game.hand[p]
                     /\ rollout'.game.graveyard[p]
                            = Append(rollout.game.graveyard[p], card)]_vars

\* A rollout has played a card straight from the undealt deck of the second
\* player, whose hand still holds a card.
C38_Witness ==
    /\ rollout.pc = "rollout"
    /\ last.op = "__iter__"
    /\ yielded[1].type = "NonDeterministicPlayCartNode"
    /\ ~yielded[1].in_hand
    /\ rollout.game.deck[1] = <<>>
    /\ rollout.game.hand[1] # {}
    /\ yielded[1].card \in Range(rollout.game.graveyard[1])

\* ------------------------------------------------------------------------
\* The planner: invariants of the nodes, the descent
\* ------------------------------------------------------------------------

\* C39: after any sequence of run iterations and reroots every node of the
\* tree has wins >= 0, losses >= 0 and wins + losses <= visits, every child
\* among a node's children has that node as its parent, and the root has no
\* parent: the tree has a root, and every other node is one of the children
\* of the node its path leads through.
C39_NodeInvariant ==
    /\ <<>> \in DOMAIN tree.nodes
    /\ \A q \in DOMAIN tree.nodes :
           /\ tree.nodes[q].wins.n >= 0
           /\ tree.nodes[q].losses.n >= 0
           /\ ~RatLess(Rat(tree.nodes[q].visits, 1),
                       RatAdd(tree.nodes[q].wins, tree.nodes[q].losses))
           /\ q # <<>> => /\ Parent(q) \in DOMAIN tree.nodes
                          /\ q \in Range(Children(tree.nodes, Parent(q)))

\* The nodes the descent of tree_policy can pass: the root, and every node
\* whose ancestors are neither terminal nor expandable.
Passed(nodes) ==
    {q \in DOMAIN nodes :
        \A k \in 0..(Len(q) - 1) :
            /\ ~nodes[SubSeq(q, 1, k)].action.is_terminal
            /\ ~nodes[SubSeq(q, 1, k)].is_expandable}

\* C40: whenever the tree policy has to choose among the children of a node
\* (a node the descent can pass that is neither terminal nor expandable), the
\* node has at least one child and the node and each of its children have
\* been visited at least once; a terminal node has no children.
C40_DescentDefined ==
    /\ rollout.pc = "idle"
           => \A q \in Passed(tree.nodes) :
                  ~tree.nodes[q].action.is_terminal /\ ~tree.nodes[q].is_expandable
                      => /\ Children(tree.nodes, q) # <<>>
                         /\ tree.nodes[q].visits >= 1
                         /\ \A c \in Range(Children(tree.nodes, q)) :
                                tree.nodes[c].visits >= 1
    /\ \A q \in DOMAIN tree.nodes :
           tree.nodes[q].action.is_terminal => Children(tree.nodes, q) = <<>>

====
